---- MODULE Spec2Model ----
(***************************************************************************)
(* A model of agent_service/test_analysis.py: the failure analyzer         *)
(* (TestFailureAnalyzer), the duplication checker (DuplicationChecker) and *)
(* the pre-execution check of TestFlowOrchestrator; of the pipeline of     *)
(* advanced_e2e_orchestrator.py that calls them, with its main; and of the *)
(* runs of MasterOrchestrator (master_orchestrator.py).                    *)
(*                                                                         *)
(* Text is modelled as a sequence of tokens.  A log text is a sequence of  *)
(* word fragments ("Timeout", "Exception", ...), so that Python's          *)
(* `marker in text` is "the marker's fragments occur contiguously".  A     *)
(* selector value or a step pattern is a sequence of characters, so that   *)
(* str.strip() and str.lower() are computed character by character.        *)
(***************************************************************************)
EXTENDS Integers, Sequences, FiniteSets, TLC

VARIABLES
    failure_patterns,   \* TestFailureAnalyzer.failure_patterns, in dict order
    duplicates_found,   \* DuplicationChecker.duplicates_found
    op,                 \* the operation being called
    arg,                \* its argument (for check_before_execution: the tree it scans)
    ret,                \* the value it returned, Pending until it has returned
    calls,              \* the calls that returned before this one: [op, arg, ret]
    pc,                 \* where a run of run_advanced_e2e stands, "idle" outside one
    run,                \* the local variables of that run
    entered,            \* the steps that run has entered, in order
    state,              \* MasterOrchestrator.state
    state_file          \* .orchestrator_state.json: << >> when absent, else <<state>>

\* The variables of a pipeline run.
pipeline == <<pc, run, entered>>

\* The variables of the master orchestrator.
master == <<state, state_file>>

vars ==
    <<failure_patterns, duplicates_found, op, arg, ret, calls, pc, run, entered,
      state, state_file>>

\* What a call leaves alone.
frame ==
    <<failure_patterns, duplicates_found, op, arg, calls, pc, run, entered,
      state, state_file>>

\* Python's None.
None == "<None>"

\* The call has not returned yet.
Pending == [pending |-> TRUE]

\* The locals of a run before anything is assigned.
\* A local variable holds << >> until it is assigned, then <<value>>.
\* rag_process is the orchestrator's field, << >> for None, and polls the
\* number of health requests made to a process it started.
NoRun ==
    [pre_check |-> << >>, test_success |-> << >>, test_output |-> << >>,
     analyses |-> << >>, report_path |-> << >>,
     rag_process |-> << >>, polls |-> 0]

\* The state _load_state returns when there is no state file.
NoState == [last_hash |-> None, tests |-> << >>]

\* A first call on fresh objects, outside any pipeline run.
FirstCall ==
    /\ duplicates_found = << >>
    /\ state = NoState
    /\ state_file = << >>
    /\ ret = Pending
    /\ calls = << >>
    /\ pc = "idle"
    /\ run = NoRun
    /\ entered = << >>

(***************************************************************************)
(* Generic helpers on sequences.                                           *)
(***************************************************************************)

\* All sequences over S of length lo..hi.
SeqsOf(S, lo, hi) == UNION {[1..n -> S] : n \in lo..hi}

\* Python's `needle in haystack` on token sequences: needle occurs as a
\* contiguous run of haystack.
Contains(haystack, needle) ==
    \E i \in 1..(Len(haystack) - Len(needle) + 1) :
        SubSeq(haystack, i, i + Len(needle) - 1) = needle

(***************************************************************************)
(* Python floats (IEEE 754 binary64, round to nearest, ties to even).      *)
(* A positive float is [sig, exp]: sig = <<h, m, l>> are the 53 bits of    *)
(* its significand M = h * 2^36 + m * 2^18 + l (h has 17 bits, the top one *)
(* set; m and l have 18), and the value is M * 2^exp.  0.0 is FloatZero.   *)
(* Only the operations the duplication percentage uses are modelled,       *)
(* int / int and float * int, for operands below 2^13.                     *)
(***************************************************************************)

Limb == 2^18

TopBit == 2^16

FloatZero == [sig |-> << >>, exp |-> 0]

\* The least k >= 0 with a * 2^k >= b.
RECURSIVE ShiftUp(_, _)
ShiftUp(a, b) == IF a >= b THEN 0 ELSE 1 + ShiftUp(2 * a, b)

\* The greatest k >= 0 with b * 2^k <= n (for b <= n).
RECURSIVE ShiftFit(_, _)
ShiftFit(b, n) == IF 2 * b <= n THEN 1 + ShiftFit(2 * b, n) ELSE 0

\* Round to nearest, ties to even: the significand <<h, m, l>> with the
\* first discarded bit `guard` and `sticky` saying that a later discarded
\* bit is set.
RoundNearestEven(h, m, l, guard, sticky, exp) ==
    IF guard = 1 /\ (sticky \/ l % 2 = 1)
    THEN IF l + 1 < Limb THEN [sig |-> <<h, m, l + 1>>, exp |-> exp]
         ELSE IF m + 1 < Limb THEN [sig |-> <<h, m + 1, 0>>, exp |-> exp]
         ELSE IF h + 1 < 2 * TopBit THEN [sig |-> <<h + 1, 0, 0>>, exp |-> exp]
         ELSE [sig |-> <<TopBit, 0, 0>>, exp |-> exp + 1]
    ELSE [sig |-> <<h, m, l>>, exp |-> exp]

\* a / b for ints a >= 0, b > 0 (Python's true division): long division of
\* n / d in [1, 2), 17 + 18 + 18 bits, then the guard bit.
FloatDiv(a, b) ==
    IF a = 0 THEN FloatZero
    ELSE LET i  == ShiftUp(a, b)
             n  == a * 2^i                  \* n >= b
             j  == ShiftFit(b, n)
             d  == b * 2^j                  \* d <= n < 2 * d
             h  == (n * TopBit) \div d
             r1 == (n * TopBit) % d
             m  == (r1 * Limb) \div d
             r2 == (r1 * Limb) % d
             l  == (r2 * Limb) \div d
             r3 == (r2 * Limb) % d
         IN  RoundNearestEven(h, m, l, (2 * r3) \div d, (2 * r3) % d # 0,
                              (j - i) - 52)

\* x * k for a float x and an int k > 0: the exact product, shifted back
\* to 53 bits and rounded.
FloatMulInt(x, k) ==
    IF x = FloatZero THEN FloatZero
    ELSE LET pl == x.sig[3] * k
             pm == x.sig[2] * k + pl \div Limb
             ph == x.sig[1] * k + pm \div Limb
             lo == pl % Limb
             mi == pm % Limb
             s  == ShiftFit(TopBit, ph)     \* bits beyond the 53
         IN  IF s = 0 THEN [sig |-> <<ph, mi, lo>>, exp |-> x.exp]
             ELSE RoundNearestEven(ph \div 2^s,
                                   (ph % 2^s) * 2^(18 - s) + mi \div 2^s,
                                   (mi % 2^s) * 2^(18 - s) + lo \div 2^s,
                                   (lo \div 2^(s - 1)) % 2,
                                   lo % 2^(s - 1) # 0,
                                   x.exp + s)

\* float(n) for an int n >= 0.
FloatOfInt(n) == FloatDiv(n, 1)

(***************************************************************************)
(* TestFailureAnalyzer                                                     *)
(***************************************************************************)

\* The text of a marker, as word fragments.
MarkerText(error_type) ==
    CASE error_type = "NoSuchElementException" -> <<"NoSuchElement", "Exception">>
      [] error_type = "StaleElementReferenceException" -> <<"StaleElementReference", "Exception">>
      [] error_type = "TimeoutException" -> <<"Timeout", "Exception">>
      [] error_type = "AssertionError" -> <<"AssertionError">>
      [] error_type = "ElementNotInteractableException" -> <<"ElementNotInteractable", "Exception">>
      [] error_type = "InvalidElementStateException" -> <<"InvalidElementState", "Exception">>

\* The table __init__ builds; a dict iterates in insertion order.
BuiltFailurePatterns ==
    << [error_type |-> "NoSuchElementException",
        cause |-> "Locator not found on page",
        fixes |-> << "Verify locator selector is correct",
                     "Check if element exists in current page context",
                     "Update locator in page object",
                     "Add wait condition for element to appear",
                     "Verify page has loaded completely" >>],
       [error_type |-> "StaleElementReferenceException",
        cause |-> "Element went stale (DOM refreshed)",
        fixes |-> << "Add wait for element after action",
                     "Re-find element before interaction",
                     "Use explicit waits instead of implicit",
                     "Add try-catch with re-find logic" >>],
       [error_type |-> "TimeoutException",
        cause |-> "Action took too long",
        fixes |-> << "Increase timeout value",
                     "Wait for element visibility instead of presence",
                     "Check if element is clickable",
                     "Verify page load is complete",
                     "Check for loading spinners" >>],
       [error_type |-> "AssertionError",
        cause |-> "Expected value doesn't match actual",
        fixes |-> << "Update expected value in test",
                     "Check if element has correct content",
                     "Verify test data is correct",
                     "Add print statements to debug values",
                     "Check for dynamic content changes" >>],
       [error_type |-> "ElementNotInteractableException",
        cause |-> "Element exists but cannot be clicked/typed",
        fixes |-> << "Scroll element into view",
                     "Wait for element to be clickable",
                     "Check if element is covered by another",
                     "Add explicit wait for element readiness",
                     "Use JavaScript executor to click if needed" >>],
       [error_type |-> "InvalidElementStateException",
        cause |-> "Element is disabled or read-only",
        fixes |-> << "Check if element is enabled",
                     "Wait for element to be enabled",
                     "Verify element is not disabled",
                     "Check form validation state" >>] >>

\* Mutant: the entries were inserted in another order (the stale-element entry
\* moved to the front).
StaleFirstFailurePatterns ==
    <<BuiltFailurePatterns[2], BuiltFailurePatterns[1]>>
        \o SubSeq(BuiltFailurePatterns, 3, Len(BuiltFailurePatterns))

DefaultFailurePatterns == BuiltFailurePatterns

\* Where a marker starts first in a text (0: nowhere).
FirstPos(haystack, needle) ==
    LET at == {i \in 1..(Len(haystack) - Len(needle) + 1) :
                  SubSeq(haystack, i, i + Len(needle) - 1) = needle}
    IN  IF at = {} THEN 0 ELSE CHOOSE i \in at : \A j \in at : i <= j

\* Mutant: the marker that appears earliest in the text wins.
FirstMatchByTextPosition(table, error_message) ==
    LET hits == {i \in 1..Len(table) :
                    Contains(error_message, MarkerText(table[i].error_type))}
        pos(i) == FirstPos(error_message, MarkerText(table[i].error_type))
    IN  IF hits = {} THEN 0
        ELSE CHOOSE i \in hits :
                \A j \in hits : pos(i) < pos(j) \/ (pos(i) = pos(j) /\ i <= j)

\* Mutant: a text that matches nothing is classified as the first entry.
FirstMatchDefaultsToFirst(table, error_message) ==
    LET hits == {i \in 1..Len(table) :
                    Contains(error_message, MarkerText(table[i].error_type))}
    IN  IF hits = {} THEN 1
        ELSE CHOOSE i \in hits : \A j \in hits : i <= j

\* The `for error_type, details in self.failure_patterns.items(): ... break`
\* loop: the index of the first entry whose marker is in the text, 0 if none.
FirstMatch(table, error_message) ==
    LET hits == {i \in 1..Len(table) :
                    Contains(error_message, MarkerText(table[i].error_type))}
    IN  IF hits = {} THEN 0
        ELSE CHOOSE i \in hits : \A j \in hits : i <= j

\* Mutant: the timeout marker is tested before the missing-element marker.
SeverityTimeoutFirst(error_message) ==
    IF Contains(error_message, MarkerText("TimeoutException")) THEN "HIGH"
    ELSE IF Contains(error_message, MarkerText("NoSuchElementException")) THEN "CRITICAL"
    ELSE IF Contains(error_message, MarkerText("AssertionError")) THEN "MEDIUM"
    ELSE "LOW"

\* The if/elif chain on the raw text.
Severity(error_message) ==
    IF Contains(error_message, MarkerText("NoSuchElementException")) THEN "CRITICAL"
    ELSE IF Contains(error_message, MarkerText("TimeoutException")) THEN "HIGH"
    ELSE IF Contains(error_message, MarkerText("AssertionError")) THEN "MEDIUM"
    ELSE "LOW"

CriticalActions ==
    << "1. Verify locators are correct and up-to-date",
       "2. Check if page structure has changed",
       "3. Update page object with new locators",
       "4. Re-run test to verify fix" >>

HighActions ==
    << "1. Increase timeout values",
       "2. Add explicit waits",
       "3. Check page load completeness",
       "4. Monitor for external delays" >>

\* Mutant: every severity above LOW gets a script.
RecommendedActionsForMedium(severity) ==
    IF severity = "CRITICAL" THEN CriticalActions
    ELSE IF severity \in {"HIGH", "MEDIUM"} THEN HighActions
    ELSE << >>

RecommendedActions(severity) ==
    IF severity = "CRITICAL" THEN CriticalActions
    ELSE IF severity = "HIGH" THEN HighActions
    ELSE << >>

\* The severity the matched signature would have on its own.
SeverityOfType(error_type) ==
    IF error_type = "NoSuchElementException" THEN "CRITICAL"
    ELSE IF error_type = "TimeoutException" THEN "HIGH"
    ELSE IF error_type = "AssertionError" THEN "MEDIUM"
    ELSE "LOW"

\* Mutant: the severity is derived from the matched error_type.
AnalyzeWithSeverityOfMatch(table, error_message) ==
    LET m   == FirstMatch(table, error_message)
        sev == SeverityOfType(IF m = 0 THEN None ELSE table[m].error_type)
    IN  [error_type |-> IF m = 0 THEN None ELSE table[m].error_type,
         cause |-> IF m = 0 THEN None ELSE table[m].cause,
         fixes |-> IF m = 0 THEN << >> ELSE table[m].fixes,
         severity |-> sev,
         recommended_actions |-> RecommendedActions(sev)]

\* analyze_failure(error_message) against a table.
AnalyzeWith(table, error_message) ==
    LET m   == FirstMatch(table, error_message)
        sev == Severity(error_message)
    IN  [error_type |-> IF m = 0 THEN None ELSE table[m].error_type,
         cause |-> IF m = 0 THEN None ELSE table[m].cause,
         fixes |-> IF m = 0 THEN << >> ELSE table[m].fixes,
         severity |-> sev,
         recommended_actions |-> RecommendedActions(sev)]

\* The word fragments a log text is made of.
LogTokens ==
    {"NoSuchElement", "StaleElementReference", "Timeout", "AssertionError",
     "ElementNotInteractable", "InvalidElementState", "Exception",
     "timeout", "text"}

MaxLogLen == 4

Logs == SeqsOf(LogTokens, 0, MaxLogLen)

\* Mutant: a signature is used up by the call that matches it.
AnalyzeFailureConsuming ==
    /\ op = "analyze_failure"
    /\ ret = Pending
    /\ ret' = AnalyzeWith(failure_patterns, arg)
    /\ failure_patterns' =
          SelectSeq(failure_patterns, LAMBDA details : ~Contains(arg, MarkerText(details.error_type)))
    /\ UNCHANGED <<duplicates_found, op, arg, calls, pipeline, master>>

AnalyzeFailure ==
    /\ op = "analyze_failure"
    /\ ret = Pending
    /\ ret' = AnalyzeWith(failure_patterns, arg)
    /\ UNCHANGED frame

\* A fresh TestFailureAnalyzer about to analyse one log text.
InitAnalyzer ==
    /\ failure_patterns = DefaultFailurePatterns
    /\ op = "analyze_failure"
    /\ arg \in Logs
    /\ FirstCall

SpecAnalyzer == InitAnalyzer /\ [][AnalyzeFailure]_vars

\* Tables a caller can substitute for the built one: an entry removed, an
\* entry with another cause, the entries in reverse order.
WithoutEntry(table, i) == SubSeq(table, 1, i - 1) \o SubSeq(table, i + 1, Len(table))

WithCause(table, i, cause) == [table EXCEPT ![i].cause = cause]

Reversed(table) == [i \in 1..Len(table) |-> table[Len(table) + 1 - i]]

CustomTables ==
    {DefaultFailurePatterns, Reversed(DefaultFailurePatterns)}
        \cup {WithoutEntry(DefaultFailurePatterns, i) : i \in 1..Len(DefaultFailurePatterns)}
        \cup {WithCause(DefaultFailurePatterns, i, "custom cause") :
                 i \in 1..Len(DefaultFailurePatterns)}

\* An analyzer whose table was substituted, about to analyse one log text.
InitCustom ==
    /\ failure_patterns \in CustomTables
    /\ op = "analyze_failure"
    /\ arg \in Logs
    /\ FirstCall

SpecCustom == InitCustom /\ [][AnalyzeFailure]_vars

(***************************************************************************)
(* DuplicationChecker                                                      *)
(*                                                                         *)
(* A file is [path, status, content].  status is "ok", "missing" (open     *)
(* raises) or "undecodable" (read raises).  The content of a page object   *)
(* is the sequence of its declarations                                     *)
(*     public static final By <name> = <head><value>;                      *)
(* where head is the text the pattern expects to be `By.` and value is a   *)
(* sequence of characters without `;`.  The content of a step file is the  *)
(* sequence of its annotations  @<kw>("<text>")  with no `"` in text.      *)
(* Text that neither pattern can match is left out.                        *)
(***************************************************************************)

\* str.lower(), on the characters of the model.
LowerChar(c) ==
    CASE c = "A" -> "a"
      [] c = "B" -> "b"
      [] c = "Y" -> "y"
      [] OTHER -> c

StrLower(str) == [i \in 1..Len(str) |-> LowerChar(str[i])]

\* str.strip(): leading and trailing blanks removed.
StrStrip(str) ==
    LET ink == {i \in 1..Len(str) : str[i] # " "}
    IN  IF ink = {} THEN << >>
        ELSE SubSeq(str, CHOOSE i \in ink : \A j \in ink : i <= j,
                         CHOOSE i \in ink : \A j \in ink : j <= i)

\* Mutant: the value is compared as written.
NormalizeLocatorVerbatim(locator_value) == locator_value

\* `normalized = locator_value.strip().lower()`
NormalizeLocator(locator_value) == StrLower(StrStrip(locator_value))

\* `key = pattern_text.lower()`
StepKey(pattern_text) == StrLower(pattern_text)

\* r'public static final By (\w+) = By\.([^;]+);' matches the declaration.
LocatorMatches(decl) == decl.head = "By." /\ Len(decl.value) >= 1

\* r'@(When|Then|Given)\("([^"]+)"\)' matches the annotation.
StepMatches(annot) ==
    annot.kw \in {"When", "Then", "Given"} /\ Len(annot.text) >= 1

\* What one file adds to the scan, in order; a file that cannot be opened or
\* decoded raises before anything is extracted and the except clause goes
\* on to the next file.
PageEntries(file) ==
    IF file.status # "ok" THEN << >>
    ELSE LET locators == SelectSeq(file.content, LocatorMatches)
         IN  [i \in 1..Len(locators) |->
                [file |-> file.path, name |-> locators[i].name,
                 value |-> locators[i].value]]

StepEntries(file) ==
    IF file.status # "ok" THEN << >>
    ELSE LET patterns == SelectSeq(file.content, StepMatches)
         IN  [i \in 1..Len(patterns) |->
                [file |-> file.path, pattern |-> patterns[i].text,
                 type |-> patterns[i].kw]]

\* Mutant: a file that cannot be read ends the scan.
RECURSIVE ScanPagesAborting(_)
ScanPagesAborting(page_files) ==
    IF page_files = << >> \/ Head(page_files).status # "ok" THEN << >>
    ELSE PageEntries(Head(page_files)) \o ScanPagesAborting(Tail(page_files))

\* `for file_path in page_files:` everything extracted, in scan order.
RECURSIVE ScanPages(_)
ScanPages(page_files) ==
    IF page_files = << >> THEN << >>
    ELSE PageEntries(Head(page_files)) \o ScanPages(Tail(page_files))

RECURSIVE ScanSteps(_)
ScanSteps(step_files) ==
    IF step_files = << >> THEN << >>
    ELSE StepEntries(Head(step_files)) \o ScanSteps(Tail(step_files))

\* locator_map / step_patterns: a dict, kept as the sequence of its items in
\* insertion order.  `if key not in d: d[key] = []` then `d[key].append(e)`.
Put(map, key, entry) ==
    IF \E i \in 1..Len(map) : map[i].key = key
    THEN LET i == CHOOSE i \in 1..Len(map) : map[i].key = key
         IN  [map EXCEPT ![i].occurrences = Append(@, entry)]
    ELSE Append(map, [key |-> key, occurrences |-> <<entry>>])

RECURSIVE LocatorMap(_, _)
LocatorMap(map, entries) ==
    IF entries = << >> THEN map
    ELSE LocatorMap(Put(map, NormalizeLocator(Head(entries).value), Head(entries)),
                    Tail(entries))

\* Mutant: the key holds the keyword as well.
RECURSIVE StepPatternsByKeyword(_, _)
StepPatternsByKeyword(map, entries) ==
    IF entries = << >> THEN map
    ELSE StepPatternsByKeyword(
             Put(map, <<Head(entries).type>> \o StepKey(Head(entries).pattern), Head(entries)),
             Tail(entries))

RECURSIVE StepPatterns(_, _)
StepPatterns(map, entries) ==
    IF entries = << >> THEN map
    ELSE StepPatterns(Put(map, StepKey(Head(entries).pattern), Head(entries)),
                      Tail(entries))

\* Mutant: every group is reported.
IsDuplicateFromOne(item) == Len(item.occurrences) >= 1

\* `if len(occurrences) > 1:`
IsDuplicate(item) == Len(item.occurrences) > 1

\* Mutant: a group's count is the number of files it was found in.
DuplicateLocatorsCountingFiles(map) ==
    LET dups == SelectSeq(map, IsDuplicate)
    IN  [i \in 1..Len(dups) |->
           [value |-> dups[i].key,
            count |-> Cardinality({dups[i].occurrences[k].file :
                                      k \in 1..Len(dups[i].occurrences)}),
            locations |-> [k \in 1..Len(dups[i].occurrences) |->
                             <<dups[i].occurrences[k].file,
                               dups[i].occurrences[k].name>>]]]

\* The "Find duplicates" loops.
DuplicateLocators(map) ==
    LET dups == SelectSeq(map, IsDuplicate)
    IN  [i \in 1..Len(dups) |->
           [value |-> dups[i].key,
            count |-> Len(dups[i].occurrences),
            locations |-> [k \in 1..Len(dups[i].occurrences) |->
                             <<dups[i].occurrences[k].file,
                               dups[i].occurrences[k].name>>]]]

DuplicateSteps(map) ==
    LET dups == SelectSeq(map, IsDuplicate)
    IN  [i \in 1..Len(dups) |->
           [pattern |-> dups[i].key,
            count |-> Len(dups[i].occurrences),
            files |-> [k \in 1..Len(dups[i].occurrences) |->
                         dups[i].occurrences[k].file]]]

\* Sum of the counts of the reported groups.
RECURSIVE SumCounts(_)
SumCounts(groups) ==
    IF groups = << >> THEN 0 ELSE Head(groups).count + SumCounts(Tail(groups))

\* Mutant: the numerator counts the duplicated occurrences.
PercentageOfOccurrences(groups, total) ==
    IF total > 0 THEN FloatMulInt(FloatDiv(SumCounts(groups), total), 100)
    ELSE FloatZero

\* `if total > 0: percentage = (len(groups) / total) * 100`, else the 0.0
\* the report starts with.
Percentage(groups, total) ==
    IF total > 0 THEN FloatMulInt(FloatDiv(Len(groups), total), 100)
    ELSE FloatZero

\* Mutant: every file that could be read is affected.
PageObjectReportOfFilesRead(page_files) ==
    LET entries == ScanPages(page_files)
        dups    == DuplicateLocators(LocatorMap(<< >>, entries))
    IN  [total_locators |-> Len(entries),
         duplicate_locators |-> dups,
         pages_affected |-> {page_files[i].path :
                                i \in {j \in 1..Len(page_files) : page_files[j].status = "ok"}},
         duplication_percentage |-> Percentage(dups, Len(entries))]

\* check_page_object_duplication(page_files)
PageObjectReport(page_files) ==
    LET entries == ScanPages(page_files)
        dups    == DuplicateLocators(LocatorMap(<< >>, entries))
    IN  [total_locators |-> Len(entries),
         duplicate_locators |-> dups,
         pages_affected |-> {entries[i].file : i \in 1..Len(entries)},
         duplication_percentage |-> Percentage(dups, Len(entries))]

\* check_step_duplication(step_files)
StepReport(step_files) ==
    LET entries == ScanSteps(step_files)
        dups    == DuplicateSteps(StepPatterns(<< >>, entries))
    IN  [total_steps |-> Len(entries),
         duplicate_steps |-> dups,
         files_affected |-> {entries[i].file : i \in 1..Len(entries)},
         duplication_percentage |-> Percentage(dups, Len(entries))]

\* The files of the earlier calls of an operation, in call order.
RECURSIVE EarlierFiles(_, _)
EarlierFiles(earlier, o) ==
    IF earlier = << >> THEN << >>
    ELSE (IF Head(earlier).op = o THEN Head(earlier).arg ELSE << >>)
         \o EarlierFiles(Tail(earlier), o)

\* Mutant: the check goes on from what its earlier calls collected.
CheckPageObjectDuplicationAccumulating ==
    /\ op = "check_page_object_duplication"
    /\ ret = Pending
    /\ ret' = PageObjectReport(EarlierFiles(calls, op) \o arg)
    /\ UNCHANGED frame

CheckPageObjectDuplication ==
    /\ op = "check_page_object_duplication"
    /\ ret = Pending
    /\ ret' = PageObjectReport(arg)
    /\ UNCHANGED frame

CheckStepDuplication ==
    /\ op = "check_step_duplication"
    /\ ret = Pending
    /\ ret' = StepReport(arg)
    /\ UNCHANGED frame

(***************************************************************************)
(* The file collections the checks are run on.                             *)
(***************************************************************************)

MaxFiles == 2

MaxLines == 2

MaxValLen == 2

\* The characters of a selector value or a step pattern.
Chars == {"a", "A", "b", " "}

Values == SeqsOf(Chars, 1, MaxValLen)

PlainValues == {<<"a">>, <<"A">>, <<"b">>}

Names == {"LOGIN_BUTTON", "SUBMIT_BTN"}

\* `By.`, and two spellings the pattern does not accept: other letter case,
\* and a second blank after the `=`.
Heads == {"By.", "BY.", " By."}

\* The i-th file of a collection.
Path(name, i) == <<name, i>>

PageFileName == <<"Login", "Page", ".java">>

StepFileName == <<"Login", "Steps", ".java">>

LocatorDecls == [name : Names, head : Heads, value : Values]

PlainLocatorDecls == [name : {"LOGIN_BUTTON"}, head : {"By."}, value : PlainValues]

\* "And" is an annotation the pattern does not accept.
StepAnnots == [kw : {"Given", "When", "Then", "And"}, text : Values]

PlainStepAnnots == [kw : {"Given"}, text : PlainValues]

\* What a file can be: unreadable in one of two ways, or up to MaxLines lines.
Bodies(lines) ==
    [status : {"missing", "undecodable"}, content : {<< >>}]
        \cup [status : {"ok"}, content : SeqsOf(lines, 0, MaxLines)]

\* The collections of n files with these bodies.
Collections(n, bodies, name) ==
    {[i \in 1..n |-> [path |-> Path(name, i), status |-> b[i].status,
                      content |-> b[i].content]] : b \in [1..n -> bodies]}

\* Two readable files of one line each.
Pairs(lines, name) ==
    {<<[path |-> Path(name, 1), status |-> "ok", content |-> <<x>>],
       [path |-> Path(name, 2), status |-> "ok", content |-> <<y>>]>> :
        x \in lines, y \in lines}

\* The page_files of a call: up to MaxFiles files of plain declarations, or
\* two files of one declaration of any spelling.
IsPageFileList(files) ==
    \/ \E n \in 0..MaxFiles : files \in Collections(n, Bodies(PlainLocatorDecls), PageFileName)
    \/ files \in Pairs(LocatorDecls, PageFileName)

\* One text under each of the keywords the pattern accepts, in two letter
\* cases.
KeywordAnnots == [kw : {"Given", "When", "Then"}, text : {<<"a">>, <<"A">>}]

\* Three annotations in one file, or one in a first file and two in a
\* second.
Triples(lines, name) ==
    LET file(i, content) == [path |-> Path(name, i), status |-> "ok", content |-> content]
    IN  {<<file(1, <<x, y, z>>)>> : x \in lines, y \in lines, z \in lines}
            \cup {<<file(1, <<x>>), file(2, <<y, z>>)>> :
                     x \in lines, y \in lines, z \in lines}

\* The step_files of a call: as for page_files, or three annotations of
\* any keywords.
IsStepFileList(files) ==
    \/ \E n \in 0..MaxFiles : files \in Collections(n, Bodies(PlainStepAnnots), StepFileName)
    \/ files \in Pairs(StepAnnots, StepFileName)
    \/ files \in Triples(KeywordAnnots, StepFileName)

\* A DuplicationChecker about to run one of its checks.
InitDup ==
    /\ failure_patterns = DefaultFailurePatterns
    /\ FirstCall
    /\ \/ op = "check_page_object_duplication" /\ IsPageFileList(arg)
       \/ op = "check_step_duplication" /\ IsStepFileList(arg)

NextDup == CheckPageObjectDuplication \/ CheckStepDuplication

SpecDup == InitDup /\ [][NextDup]_vars

(***************************************************************************)
(* Several calls on one DuplicationChecker.  The caller makes the next     *)
(* call once the last one has returned: the same call as an earlier one,   *)
(* or one of two other calls whose files hold a duplicate.                 *)
(***************************************************************************)

MaxCalls == 3

\* "B" is lowercased to the key "b".
CallValues == {<<"a">>, <<"B">>}

CallLocatorDecls == [name : {"LOGIN_BUTTON"}, head : {"By."}, value : CallValues]

CallStepAnnots == [kw : {"Given"}, text : CallValues]

ReadableBodies(lines) == [status : {"ok"}, content : SeqsOf(lines, 0, MaxLines)]

OtherPageCall ==
    [op |-> "check_page_object_duplication",
     arg |-> <<[path |-> Path(<<"Cart", "Page", ".java">>, 1), status |-> "ok",
                content |-> <<[name |-> "CART", head |-> "By.", value |-> <<"a">>],
                              [name |-> "BASKET", head |-> "By.", value |-> <<"a">>]>>]>>]

OtherStepCall ==
    [op |-> "check_step_duplication",
     arg |-> <<[path |-> Path(<<"Cart", "Steps", ".java">>, 1), status |-> "ok",
                content |-> <<[kw |-> "When", text |-> <<"a">>],
                              [kw |-> "Then", text |-> <<"a">>]>>]>>]

\* The calls that have returned, the last one included.
Returns == IF ret = Pending THEN calls ELSE Append(calls, [op |-> op, arg |-> arg, ret |-> ret])

NextCallChoices ==
    {[op |-> Returns[i].op, arg |-> Returns[i].arg] : i \in 1..Len(Returns)}
        \cup {OtherPageCall, OtherStepCall}

\* The caller of the checker makes its next call.
CallCheckerAgain ==
    /\ op \in {"check_page_object_duplication", "check_step_duplication"}
    /\ ret # Pending
    /\ Len(Returns) < MaxCalls
    /\ calls' = Returns
    /\ \E next \in NextCallChoices : op' = next.op /\ arg' = next.arg
    /\ ret' = Pending
    /\ UNCHANGED <<failure_patterns, duplicates_found, pipeline, master>>

InitDupCalls ==
    /\ failure_patterns = DefaultFailurePatterns
    /\ FirstCall
    /\ \/ /\ op = "check_page_object_duplication"
          /\ \E n \in 0..MaxFiles :
                arg \in Collections(n, ReadableBodies(CallLocatorDecls), PageFileName)
       \/ /\ op = "check_step_duplication"
          /\ \E n \in 0..MaxFiles :
                arg \in Collections(n, ReadableBodies(CallStepAnnots), StepFileName)

NextDupCalls == CheckPageObjectDuplication \/ CheckStepDuplication \/ CallCheckerAgain

SpecDupCalls == InitDupCalls /\ [][NextDupCalls]_vars

(***************************************************************************)
(* Several calls on one TestFailureAnalyzer, and the caller's handling of  *)
(* what it got back.  `analysis["fixes"] = details["fixes"]` hands out the *)
(* list object of the table entry, not a copy: after a match, the fixes of *)
(* the analysis and of the entry are one list, and what the caller does to *)
(* it is done to the table.  The other parts of an analysis are made anew  *)
(* by each call.                                                           *)
(***************************************************************************)

\* The log texts of the calls: no marker, one marker, two markers.
CallLogs ==
    {<<"text">>,
     <<"NoSuchElement", "Exception">>,
     <<"AssertionError">>,
     <<"StaleElementReference", "Exception", "Timeout", "Exception">>}

\* The caller of the analyzer makes its next call.
CallAnalyzerAgain ==
    /\ op = "analyze_failure"
    /\ ret # Pending
    /\ Len(Returns) < MaxCalls
    /\ calls' = Returns
    /\ arg' \in CallLogs
    /\ ret' = Pending
    /\ UNCHANGED <<failure_patterns, duplicates_found, op, pipeline, master>>

InitCalls ==
    /\ failure_patterns = DefaultFailurePatterns
    /\ op = "analyze_failure"
    /\ arg \in CallLogs
    /\ FirstCall

NextCalls == AnalyzeFailure \/ CallAnalyzerAgain

SpecCalls == InitCalls /\ [][NextCalls]_vars

MaxEdits == 2

\* The length of the longest common prefix of two lists.
CommonPrefix(s, t) ==
    LET same == {n \in 0..Len(s) : n <= Len(t) /\ SubSeq(s, 1, n) = SubSeq(t, 1, n)}
    IN  CHOOSE n \in same : \A k \in same : k <= n

\* The appends and removals that lead from the list `was` to the list `is`.
EditsBetween(was, is) ==
    (Len(was) - CommonPrefix(was, is)) + (Len(is) - CommonPrefix(was, is))

RECURSIVE EditsOfTable(_, _)
EditsOfTable(was, is) ==
    IF was = << >> THEN 0
    ELSE EditsBetween(Head(was).fixes, Head(is).fixes) + EditsOfTable(Tail(was), Tail(is))

\* list.append and list.pop
EditList(list, edit) ==
    IF edit = "append" THEN Append(list, "caller's note")
    ELSE SubSeq(list, 1, Len(list) - 1)

\* The table after the list object of the fixes of `error_type` was edited.
WithFixesEdited(table, error_type, edit) ==
    [i \in 1..Len(table) |->
        IF table[i].error_type = error_type
        THEN [table[i] EXCEPT !.fixes = EditList(@, edit)]
        ELSE table[i]]

\* The caller appends to, or removes from, the fixes of the analysis it was
\* handed last.  Without a match the list is the call's own empty list.
EditReturnedFixes ==
    /\ op = "analyze_failure"
    /\ ret # Pending
    /\ ret.error_type # None
    /\ EditsOfTable(DefaultFailurePatterns, failure_patterns) < MaxEdits
    /\ \E edit \in {"append", "pop"} :
          /\ edit = "pop" =>
                \E i \in 1..Len(failure_patterns) :
                    /\ failure_patterns[i].error_type = ret.error_type
                    /\ failure_patterns[i].fixes # << >>
          /\ failure_patterns' = WithFixesEdited(failure_patterns, ret.error_type, edit)
    /\ UNCHANGED <<duplicates_found, op, arg, ret, calls, pipeline, master>>

NextOwner == AnalyzeFailure \/ CallAnalyzerAgain \/ EditReturnedFixes

SpecOwner == InitCalls /\ [][NextOwner]_vars

(***************************************************************************)
(* One analyzer analysing every log text of Logs, one after the other:     *)
(* the empty text first, then each text followed by its extensions.        *)
(***************************************************************************)

\* LogTokens in an order.
TokenOrder ==
    <<"text", "timeout", "Exception", "NoSuchElement", "StaleElementReference",
      "Timeout", "AssertionError", "ElementNotInteractable", "InvalidElementState">>

TokenAfter(token) ==
    TokenOrder[1 + CHOOSE i \in 1..Len(TokenOrder) : TokenOrder[i] = token]

\* The next text that is no extension of `text`; << >> when there is none.
RECURSIVE NextBranch(_)
NextBranch(text) ==
    IF text = << >> THEN << >>
    ELSE IF text[Len(text)] # TokenOrder[Len(TokenOrder)]
    THEN [text EXCEPT ![Len(text)] = TokenAfter(@)]
    ELSE NextBranch(SubSeq(text, 1, Len(text) - 1))

NextLog(text) ==
    IF Len(text) < MaxLogLen THEN Append(text, TokenOrder[1]) ELSE NextBranch(text)

\* The caller passes on to the next log text.
AnalyzeNextLog ==
    /\ op = "analyze_failure"
    /\ ret # Pending
    /\ NextLog(arg) # << >>
    /\ arg' = NextLog(arg)
    /\ ret' = Pending
    /\ UNCHANGED <<failure_patterns, duplicates_found, op, calls, pipeline, master>>

InitSweep ==
    /\ failure_patterns = DefaultFailurePatterns
    /\ op = "analyze_failure"
    /\ arg = << >>
    /\ FirstCall

NextSweep == AnalyzeFailure \/ AnalyzeNextLog

\* Every call returns and the caller goes on until no text is left.
SpecSweep == InitSweep /\ [][NextSweep]_vars /\ WF_vars(NextSweep)

(***************************************************************************)
(* TestFailureAnalyzer.suggest_fix_code.  A template is the sequence of    *)
(* its literal pieces and of the element name put between them.            *)
(***************************************************************************)

NoSuchElementFix(element_name) ==
    <<"\n# Fix: Add explicit wait for element\nWebDriverWait(driver, 10).until(\n    EC.presence_of_element_located((By.ID, \"",
      element_name,
      "\"))\n)\nelement = driver.find_element(By.ID, \"",
      element_name,
      "\")\n">>

StaleElementFix(element_name) ==
    <<"\n# Fix: Re-find element before use\ntry:\n    element = driver.find_element(By.ID, \"",
      element_name,
      "\")\n    element.click()\nexcept StaleElementReferenceException:\n    # Re-find and retry\n    WebDriverWait(driver, 10).until(\n        EC.presence_of_element_located((By.ID, \"",
      element_name,
      "\"))\n    )\n    element = driver.find_element(By.ID, \"",
      element_name,
      "\")\n    element.click()\n">>

TimeoutFix(element_name) ==
    <<"\n# Fix: Increase timeout and wait for clickability\nelement = WebDriverWait(driver, 20).until(\n    EC.element_to_be_clickable((By.ID, \"",
      element_name,
      "\"))\n)\nelement.click()\n">>

NotInteractableFix(element_name) ==
    <<"\n# Fix: Scroll into view and wait for clickability\nelement = driver.find_element(By.ID, \"",
      element_name,
      "\")\ndriver.execute_script(\"arguments[0].scrollIntoView(true);\", element)\nWebDriverWait(driver, 10).until(\n    EC.element_to_be_clickable((By.ID, \"",
      element_name,
      "\"))\n)\nelement.click()\n">>

\* The text for every other error type, in its two sentences.
GenericFix == <<"# Unable to suggest specific fix.", " See analyzer output.">>

\* Mutant: every signature of the table has the template for a missing
\* element unless it has its own.
SuggestFixCodeForEverySignature(error_type, element_name) ==
    CASE error_type = "StaleElementReferenceException" -> StaleElementFix(element_name)
      [] error_type = "TimeoutException" -> TimeoutFix(element_name)
      [] error_type = "ElementNotInteractableException" -> NotInteractableFix(element_name)
      [] error_type \in {"NoSuchElementException", "AssertionError",
                         "InvalidElementStateException"} -> NoSuchElementFix(element_name)
      [] OTHER -> GenericFix

\* `fixes.get(error_type, "# Unable to suggest ...")`
SuggestFixCodeFor(error_type, element_name) ==
    CASE error_type = "NoSuchElementException" -> NoSuchElementFix(element_name)
      [] error_type = "StaleElementReferenceException" -> StaleElementFix(element_name)
      [] error_type = "TimeoutException" -> TimeoutFix(element_name)
      [] error_type = "ElementNotInteractableException" -> NotInteractableFix(element_name)
      [] OTHER -> GenericFix

SuggestFixCode ==
    /\ op = "suggest_fix_code"
    /\ ret = Pending
    /\ ret' = SuggestFixCodeFor(arg.error_type, arg.element_name)
    /\ UNCHANGED frame

\* The error types asked about: the signatures of the table, and strings
\* that are no signature.
FixErrorTypes ==
    {DefaultFailurePatterns[i].error_type : i \in 1..Len(DefaultFailurePatterns)}
        \cup {"", "nosuchelementexception", "Exception", "WebDriverException"}

ElementNames == {"", "loginButton", "submit-btn", "cart", "user name", "q\"x"}

InitFix ==
    /\ failure_patterns = DefaultFailurePatterns
    /\ op = "suggest_fix_code"
    /\ arg \in [error_type : FixErrorTypes, element_name : ElementNames]
    /\ FirstCall

SpecFix == InitFix /\ [][SuggestFixCode]_vars

(***************************************************************************)
(* DuplicationChecker.generate_deduplication_suggestions.  Its argument is *)
(* a report of one of the checks, or a dict the caller has put together.   *)
(***************************************************************************)

\* x > y for two floats that are not negative.
FloatGreater(x, y) ==
    IF x = FloatZero THEN FALSE
    ELSE IF y = FloatZero THEN TRUE
    ELSE \/ x.exp > y.exp
         \/ /\ x.exp = y.exp
            /\ \/ x.sig[1] > y.sig[1]
               \/ x.sig[1] = y.sig[1] /\ x.sig[2] > y.sig[2]
               \/ x.sig[1] = y.sig[1] /\ x.sig[2] = y.sig[2] /\ x.sig[3] > y.sig[3]

\* dict.get(key, default)
Get(dict, key, default) == IF key \in DOMAIN dict THEN dict[key] ELSE default

StepSuggestions(n) ==
    <<"=== STEP DEDUPLICATION SUGGESTIONS ===",
      <<"Found ", n, " duplicate step definitions">>,
      "\nOptions:",
      "1. Create shared step definition file",
      "2. Use inheritance for similar steps",
      "3. Create parameterized generic steps",
      "4. Remove redundant step files">>

LocatorSuggestions(n) ==
    <<"\n=== LOCATOR DEDUPLICATION SUGGESTIONS ===",
      <<"Found ", n, " duplicate locators">>,
      "\nOptions:",
      "1. Create shared locator constants file",
      "2. Use inheritance in page objects",
      "3. Create base page with common locators",
      "4. Use composition for shared elements">>

\* The warning sign of the source text is written (!).
HighDuplicationWarning ==
    <<"\n(!)  HIGH DUPLICATION: > 20%",
      "Recommend refactoring to reduce maintenance burden">>

\* Mutant: 20 % is high already.
IsHighDuplicationFrom20(percentage) ==
    percentage = FloatOfInt(20) \/ FloatGreater(percentage, FloatOfInt(20))

\* `duplication_report.get("duplication_percentage", 0) > 20`
IsHighDuplication(percentage) == FloatGreater(percentage, FloatOfInt(20))

DeduplicationSuggestions(duplication_report) ==
    LET duplicate_steps    == Get(duplication_report, "duplicate_steps", << >>)
        duplicate_locators == Get(duplication_report, "duplicate_locators", << >>)
        percentage         == Get(duplication_report, "duplication_percentage", FloatZero)
    IN  (IF duplicate_steps # << >> THEN StepSuggestions(Len(duplicate_steps)) ELSE << >>)
        \o (IF duplicate_locators # << >> THEN LocatorSuggestions(Len(duplicate_locators))
            ELSE << >>)
        \o (IF IsHighDuplication(percentage) THEN HighDuplicationWarning ELSE << >>)

GenerateDeduplicationSuggestions ==
    /\ op = "generate_deduplication_suggestions"
    /\ ret = Pending
    /\ ret' = DeduplicationSuggestions(arg)
    /\ UNCHANGED frame

MaxDecls == 6

\* One readable file of up to MaxDecls lines.
LongFiles(lines, name) ==
    {<<[path |-> Path(name, 1), status |-> "ok", content |-> content]>> :
        content \in SeqsOf(lines, 0, MaxDecls)}

\* Reports of the two checks, and a few dicts no check returns: one
\* without keys, and percentages without groups.
IsDuplicationReport(report) ==
    \/ \E files \in LongFiles(PlainLocatorDecls, PageFileName) :
          report = PageObjectReport(files)
    \/ \E files \in LongFiles(PlainStepAnnots, StepFileName) :
          report = StepReport(files)
    \/ report = [project |-> "saucedemo"]
    \/ \E total \in 1..MaxDecls :
          report = [duplicate_locators |-> << >>,
                    duplication_percentage |-> FloatMulInt(FloatDiv(1, total), 100)]

InitSuggest ==
    /\ failure_patterns = DefaultFailurePatterns
    /\ op = "generate_deduplication_suggestions"
    /\ IsDuplicationReport(arg)
    /\ FirstCall

SpecSuggest == InitSuggest /\ [][GenerateDeduplicationSuggestions]_vars

(***************************************************************************)
(* TestFlowOrchestrator.check_before_execution.  The framework tree is the *)
(* input: the state of the pages and stepdefinitions directories and the   *)
(* files under them, in the order the directory walk yields them.  A file  *)
(* name is a sequence of fragments.  The report's timestamp is the wall    *)
(* clock and is left out.                                                  *)
(***************************************************************************)

\* The value of a report field that holds a report once the check has run.
NoReport == [none |-> TRUE]

FileName(file) == file.path[1]

\* The glob `*.java`.
IsJava(name) == Len(name) >= 1 /\ name[Len(name)] = ".java"

\* `"Page" in f.name`
HasPage(name) == Contains(name, <<"Page">>)

\* The glob `*Steps.java`.
IsStepsJava(name) == IsJava(name) /\ Len(name) >= 2 /\ name[Len(name) - 1] = "Steps"

IsPageFile(file) == IsJava(FileName(file)) /\ HasPage(FileName(file))

IsStepFile(file) == IsStepsJava(FileName(file))

\* _find_page_files: nothing when the directory is absent or the walk raises.
FindPageFiles(tree) ==
    IF tree.pages_dir = "exists" THEN SelectSeq(tree.pages, IsPageFile) ELSE << >>

\* _find_step_files
FindStepFiles(tree) ==
    IF tree.steps_dir = "exists" THEN SelectSeq(tree.steps, IsStepFile) ELSE << >>

\* f"Duplicate locators found: {n}" and f"Duplicate steps found: {n}"
LocatorIssue(n) == <<"Duplicate locators found: ", n>>

StepIssue(n) == <<"Duplicate steps found: ", n>>

\* Mutant: duplicate steps block the execution as duplicate locators do.
PreCheckReportStepsBlock(page_files, step_files) ==
    LET dup_locators == PageObjectReport(page_files)
        dup_steps    == StepReport(step_files)
        loc_dups     == page_files # << >> /\ dup_locators.duplicate_locators # << >>
        step_dups    == step_files # << >> /\ dup_steps.duplicate_steps # << >>
    IN  [duplication_check |-> IF page_files # << >> THEN dup_locators ELSE NoReport,
         locator_integrity |-> NoReport,
         step_integrity |-> IF step_files # << >> THEN dup_steps ELSE NoReport,
         ready_to_execute |-> ~(loc_dups \/ step_dups),
         issues |->
            (IF loc_dups THEN <<LocatorIssue(Len(dup_locators.duplicate_locators))>>
             ELSE << >>)
            \o (IF step_dups THEN <<StepIssue(Len(dup_steps.duplicate_steps))>>
                ELSE << >>)]

\* Mutant: both checks are run whatever was found.
PreCheckReportAlwaysChecking(page_files, step_files) ==
    LET dup_locators == PageObjectReport(page_files)
        dup_steps    == StepReport(step_files)
        loc_dups     == dup_locators.duplicate_locators # << >>
        step_dups    == dup_steps.duplicate_steps # << >>
    IN  [duplication_check |-> dup_locators,
         locator_integrity |-> NoReport,
         step_integrity |-> dup_steps,
         ready_to_execute |-> ~loc_dups,
         issues |->
            (IF loc_dups THEN <<LocatorIssue(Len(dup_locators.duplicate_locators))>>
             ELSE << >>)
            \o (IF step_dups THEN <<StepIssue(Len(dup_steps.duplicate_steps))>>
                ELSE << >>)]

\* The body of check_before_execution, from the two lists of files found.
PreCheckReport(page_files, step_files) ==
    LET dup_locators == PageObjectReport(page_files)
        dup_steps    == StepReport(step_files)
        loc_dups     == page_files # << >> /\ dup_locators.duplicate_locators # << >>
        step_dups    == step_files # << >> /\ dup_steps.duplicate_steps # << >>
    IN  [duplication_check |-> IF page_files # << >> THEN dup_locators ELSE NoReport,
         locator_integrity |-> NoReport,
         step_integrity |-> IF step_files # << >> THEN dup_steps ELSE NoReport,
         ready_to_execute |-> ~loc_dups,
         issues |->
            (IF loc_dups THEN <<LocatorIssue(Len(dup_locators.duplicate_locators))>>
             ELSE << >>)
            \o (IF step_dups THEN <<StepIssue(Len(dup_steps.duplicate_steps))>>
                ELSE << >>)]

CheckBeforeExecution ==
    /\ op = "check_before_execution"
    /\ ret = Pending
    /\ ret' = PreCheckReport(FindPageFiles(arg), FindStepFiles(arg))
    /\ UNCHANGED frame

\* A directory is there, is not there, or cannot be walked.
DirStates == {"exists", "absent", "unwalkable"}

\* File names the pages directory can hold; the last two are not page files.
PageDirNames == {<<"Login", "Page", ".java">>, <<"Login", ".java">>, <<"Page", ".txt">>}

\* File names the stepdefinitions directory can hold; the last is not a
\* step file.
StepDirNames == {<<"Login", "Steps", ".java">>, <<"Hooks", ".java">>}

\* The collections of up to MaxFiles readable files with these names, all
\* holding this one line.
NamedFiles(names, line) ==
    UNION {{[i \in 1..n |-> [path |-> Path(nm[i], i), status |-> "ok",
                             content |-> <<line>>]] : nm \in [1..n -> names]} :
           n \in 0..MaxFiles}

\* A few collections: none, one file without a repeat, one with, and two
\* files repeating each other.
FewFiles(line, name) ==
    LET file(i, content) == [path |-> Path(name, i), status |-> "ok", content |-> content]
    IN  {<< >>, <<file(1, <<line>>)>>, <<file(1, <<line, line>>)>>,
         <<file(1, <<line>>), file(2, <<line>>)>>}

\* The lines of the files of a tree.
TreeLocatorDecls == [name : {"LOGIN_BUTTON"}, head : {"By."}, value : {<<"a">>, <<"b">>}]

TreeStepAnnots == [kw : {"Given"}, text : {<<"a">>, <<"b">>}]

OneLocatorDecl == [name |-> "LOGIN_BUTTON", head |-> "By.", value |-> <<"a">>]

OneStepAnnot == [kw |-> "Given", text |-> <<"a">>]

Tree(pages_dir, pages, steps_dir, steps) ==
    [pages_dir |-> pages_dir, pages |-> pages, steps_dir |-> steps_dir, steps |-> steps]

\* The framework trees: any pages with a few step files, a few pages with
\* any step files, and both directories in any state holding files of any
\* name (an absent directory holds none).
IsFrameworkTree(tree) ==
    \/ \E n \in 0..MaxFiles :
         \E pages \in Collections(n, Bodies(TreeLocatorDecls), PageFileName) :
           \E steps \in FewFiles(OneStepAnnot, StepFileName) :
             tree = Tree("exists", pages, "exists", steps)
    \/ \E n \in 0..MaxFiles :
         \E steps \in Collections(n, Bodies(TreeStepAnnots), StepFileName) :
           \E pages \in FewFiles(OneLocatorDecl, PageFileName) :
             tree = Tree("exists", pages, "exists", steps)
    \/ \E pages_dir \in DirStates, steps_dir \in DirStates :
         \E pages \in NamedFiles(PageDirNames, OneLocatorDecl) :
           \E steps \in NamedFiles(StepDirNames, OneStepAnnot) :
             /\ pages_dir = "absent" => pages = << >>
             /\ steps_dir = "absent" => steps = << >>
             /\ tree = Tree(pages_dir, pages, steps_dir, steps)

\* A TestFlowOrchestrator about to run its check.
InitFlow ==
    /\ failure_patterns = DefaultFailurePatterns
    /\ FirstCall
    /\ op = "check_before_execution"
    /\ IsFrameworkTree(arg)

SpecFlow == InitFlow /\ [][CheckBeforeExecution]_vars

(***************************************************************************)
(* AdvancedE2EOrchestrator.run_advanced_e2e, one action per step of the    *)
(* run.  What the steps meet outside the program is the run's input: the   *)
(* framework tree, the RAG service, the generation requests, Maven and its *)
(* output.  A line of the test output is a sequence of word fragments, as  *)
(* a log text is.  `ret` is [returned |-> value] once the run has          *)
(* returned, and [raised |-> error] once an error has left it.             *)
(***************************************************************************)

Step0 == "run_pre_execution_checks"

Step1 == "start_rag_service"

Step2 == "generate_artifacts"

Step3 == "run_tests"

Step4 == "analyze_test_failures"

Step5 == "generate_report"

\* The run passes from step `from` to `to`.
Goes(from, to) ==
    /\ op = "run_advanced_e2e"
    /\ pc = from
    /\ entered' = Append(entered, from)
    /\ pc' = to
    /\ UNCHANGED <<failure_patterns, duplicates_found, arg, calls, master>>
    /\ op' = op

\* The run ends in step `from` with `outcome`.
Ends(from, outcome) ==
    /\ Goes(from, "returned")
    /\ ret' = outcome
    /\ UNCHANGED run

\* `for i in range(30)`
HealthPolls == 30

\* Mutant: a run whose pre-check is not ready ends there.
RunPreExecutionChecksBlocking ==
    LET pre_check_report == PreCheckReport(FindPageFiles(arg.tree), FindStepFiles(arg.tree))
    IN  /\ Goes(Step0, IF pre_check_report.ready_to_execute THEN Step1 ELSE "returned")
        /\ run' = [run EXCEPT !.pre_check = <<pre_check_report>>]
        /\ ret' = IF pre_check_report.ready_to_execute THEN ret ELSE [returned |-> FALSE]

\* Step 0: `pre_check = self.run_pre_execution_checks()`
RunPreExecutionChecks ==
    /\ Goes(Step0, Step1)
    /\ run' = [run EXCEPT !.pre_check =
                  <<PreCheckReport(FindPageFiles(arg.tree), FindStepFiles(arg.tree))>>]
    /\ UNCHANGED ret

\* Step 1: `if not self.start_rag_service(): return False`.  The service
\* answers already, or is started and answers, or its file is missing, or
\* it never answers, or starting the process raises.
\* A process started by Popen is polled in `for i in range(30)`: the
\* request of poll arg.ready_at is the first that is answered.
StartRagService ==
    \/ /\ arg.rag = "running"
       /\ Goes(Step1, Step2)
       /\ UNCHANGED <<ret, run>>
    \/ /\ arg.rag = "started"
       /\ Goes(Step1, Step2)
       /\ run' = [run EXCEPT !.rag_process = <<"running">>, !.polls = arg.ready_at]
       /\ UNCHANGED ret
    \/ /\ arg.rag = "no file"
       /\ Ends(Step1, [returned |-> FALSE])
    \/ /\ arg.rag = "never ready"
       /\ Goes(Step1, "returned")
       /\ run' = [run EXCEPT !.rag_process = <<"running">>, !.polls = HealthPolls]
       /\ ret' = [returned |-> FALSE]
    \/ /\ arg.rag = "cannot start"
       /\ Ends(Step1, [raised |-> "OSError"])

\* Step 2: `if not self.generate_artifacts(requirement, project): return False`
GenerateArtifacts ==
    \/ /\ arg.generation = "success"
       /\ Goes(Step2, Step3)
       /\ UNCHANGED <<ret, run>>
    \/ /\ arg.generation # "success"
       /\ Ends(Step2, [returned |-> FALSE])

\* `"BUILD SUCCESS" in result.stdout`
BuildSucceeded(stdout) ==
    \E i \in 1..Len(stdout) : Contains(stdout[i], <<"BUILD SUCCESS">>)

\* Step 3: `test_success, test_output = self.run_tests()`; without Maven
\* subprocess.run raises.
RunTests ==
    \/ /\ arg.tests.mvn = "missing"
       /\ Ends(Step3, [raised |-> "FileNotFoundError"])
    \/ /\ arg.tests.mvn = "ran"
       /\ Goes(Step3, Step4)
       /\ run' = [run EXCEPT !.test_success = <<BuildSucceeded(arg.tests.stdout)>>,
                             !.test_output = <<arg.tests.stdout>>]
       /\ UNCHANGED ret

\* `"FAILED" in line or "ERROR" in line or "Exception" in line`
IsFailureLine(line) ==
    \/ Contains(line, <<"FAILED">>)
    \/ Contains(line, <<"ERROR">>)
    \/ Contains(line, <<"Exception">>)

\* The analyses of `for failure_line in failure_lines[:3]`.
FailureAnalyses(table, test_output) ==
    LET failure_lines == SelectSeq(test_output, IsFailureLine)
        first         == SubSeq(failure_lines, 1, IF Len(failure_lines) < 3
                                                  THEN Len(failure_lines) ELSE 3)
    IN  [i \in 1..Len(first) |-> AnalyzeWith(table, first[i])]

\* Mutant: tests that did not succeed are run once more after the analysis.
AnalyzeTestFailuresThenRetry ==
    /\ Goes(Step4, IF run.test_success[1] \/ Step4 \in {entered[i] : i \in 1..Len(entered)}
                   THEN Step5 ELSE Step3)
    /\ run' = [run EXCEPT !.analyses = <<FailureAnalyses(failure_patterns, run.test_output[1])>>]
    /\ UNCHANGED ret

\* Step 4: `self.analyze_test_failures(test_output)`
AnalyzeTestFailures ==
    /\ Goes(Step4, Step5)
    /\ run' = [run EXCEPT !.analyses = <<FailureAnalyses(failure_patterns, run.test_output[1])>>]
    /\ UNCHANGED ret

\* Mutant: the run returns what the tests returned.
GenerateReportReturningTestSuccess ==
    /\ Goes(Step5, "returned")
    /\ run' = [run EXCEPT !.report_path =
                  <<IF arg.report = "built" THEN "target/allure-report/index.html" ELSE None>>]
    /\ ret' = [returned |-> run.test_success[1]]

\* Step 5: `report_path = self.generate_report()`, the summary, `return True`
GenerateReport ==
    /\ Goes(Step5, "returned")
    /\ run' = [run EXCEPT !.report_path =
                  <<IF arg.report = "built" THEN "target/allure-report/index.html" ELSE None>>]
    /\ ret' = [returned |-> TRUE]

\* Mutant: the service is stopped after a run that returned True.
CleanupAfterSuccess ==
    /\ op = "run_advanced_e2e"
    /\ pc = "returned"
    /\ pc' = "exited"
    /\ run' = [run EXCEPT !.rag_process =
                  IF @ # << >> /\ ret = [returned |-> TRUE] THEN <<"terminated">> ELSE @]
    /\ UNCHANGED <<failure_patterns, duplicates_found, op, arg, ret, calls, entered, master>>

\* main's `finally: orchestrator.cleanup()`, after the run has returned or
\* raised: `if self.rag_process: self.rag_process.terminate()`.
Cleanup ==
    /\ op = "run_advanced_e2e"
    /\ pc = "returned"
    /\ pc' = "exited"
    /\ run' = [run EXCEPT !.rag_process = IF @ # << >> THEN <<"terminated">> ELSE @]
    /\ UNCHANGED <<failure_patterns, duplicates_found, op, arg, ret, calls, entered, master>>

MaxOutputLines == 2

OutputLines ==
    {<<"BUILD SUCCESS">>, <<"text">>, <<"FAILED", "text">>,
     <<"NoSuchElement", "Exception">>, <<"text", "Timeout", "Exception">>,
     <<"ERROR", "AssertionError">>}

\* No directories; or pages and steps, each with or without a duplicate.
RunTrees ==
    {Tree("absent", << >>, "absent", << >>)}
        \cup {Tree("exists", pages, "exists", step_files) :
                pages \in {f \in FewFiles(OneLocatorDecl, PageFileName) : Len(f) = 1},
                step_files \in {f \in FewFiles(OneStepAnnot, StepFileName) : Len(f) = 1}}

\* skip_checks is main's --skip-checks; ready_at counts only for a service
\* that is started and answers.
RunInputs ==
    {input \in
        [tree : RunTrees,
         skip_checks : BOOLEAN,
         rag : {"running", "started", "no file", "never ready", "cannot start"},
         ready_at : {1, HealthPolls},
         generation : {"success", "features failed", "pages failed", "request error"},
         tests : [mvn : {"missing"}, stdout : {<< >>}]
                   \cup [mvn : {"ran"}, stdout : SeqsOf(OutputLines, 0, MaxOutputLines)],
         report : {"built", "not built"}] :
        input.rag = "started" \/ input.ready_at = 1}

InitRun ==
    /\ failure_patterns = DefaultFailurePatterns
    /\ duplicates_found = << >>
    /\ op = "run_advanced_e2e"
    /\ arg \in RunInputs
    /\ ret = Pending
    /\ calls = << >>
    /\ pc = Step0
    /\ run = NoRun
    /\ entered = << >>
    /\ state = NoState
    /\ state_file = << >>

NextRun ==
    \/ RunPreExecutionChecks
    \/ StartRagService
    \/ GenerateArtifacts
    \/ RunTests
    \/ AnalyzeTestFailures
    \/ GenerateReport
    \/ Cleanup

SpecRun == InitRun /\ [][NextRun]_vars

(***************************************************************************)
(* MasterOrchestrator (master_orchestrator.py): main builds an             *)
(* orchestrator, which loads its state from the state file, and calls run  *)
(* with the four flags.  One action per phase of the run; the invocation's *)
(* flags, the requirements file it meets (its hash, or "missing") and      *)
(* whether the RAG service could be built are its input `arg`; what Maven  *)
(* does is met in phase 4.  Of the state, last_hash and tests are          *)
(* modelled (tests as << >> for the empty dict, else <<passed>>); the      *)
(* lists of generated files and the timestamps are left out.               *)
(***************************************************************************)

MasterOp == "MasterOrchestrator.run"

Phase1 == "phase_1_generate_features"

Phase2 == "phase_2_generate_pages"

Phase3 == "phase_3_remove_duplication"

Phase4 == "phase_4_run_tests"

Phase5 == "phase_5_analyze_failures"

Phase6 == "phase_6_generate_report"

\* The locals of a run of the master orchestrator: the state file as the
\* invocation found it, what phase 4 returned, and what phase 5 did.
NoMasterRun == [found |-> << >>, passed |-> << >>, analysis |-> << >>]

\* _load_state
LoadState(file) == IF file # << >> THEN file[1] ELSE NoState

\* check_requirements_changed against a state: the result and the state
\* it leaves.
RequirementsChanged(st, requirements) ==
    requirements # "missing" /\ requirements # st.last_hash

AfterCheck(st, requirements) ==
    IF RequirementsChanged(st, requirements)
    THEN [st EXCEPT !.last_hash = requirements]
    ELSE st

\* `only_gen or (not skip_gen and self.check_requirements_changed())`
GenerationMode(flags, st, requirements) ==
    flags.only_gen \/ (~flags.skip_gen /\ RequirementsChanged(st, requirements))

\* `only_tests or (not skip_tests and not only_gen)`
TestMode(flags) == flags.only_tests \/ (~flags.skip_tests /\ ~flags.only_gen)

\* Whether lines 240-247 call check_requirements_changed at all: in the
\* condition of the `if` unless only_gen or skip_gen cut it short, and in
\* the `elif` branch.
ChecksRequirements(flags, st, requirements) ==
    \/ ~flags.only_gen /\ ~flags.skip_gen
    \/ ~GenerationMode(flags, st, requirements) /\ ~flags.only_tests

\* A phase of the master run passes control on.
MasterGoes(from, to) ==
    /\ op = MasterOp
    /\ pc = from
    /\ pc' = to
    /\ entered' = Append(entered, from)
    /\ UNCHANGED <<failure_patterns, duplicates_found, op, arg, calls, state_file>>

AfterGeneration == IF TestMode(arg) THEN Phase4 ELSE "save"

\* Lines 240-247: generation mode or not, with the calls of
\* check_requirements_changed this takes.
DecideGeneration ==
    /\ op = MasterOp
    /\ pc = "run"
    /\ pc' = IF GenerationMode(arg, state, arg.requirements) THEN Phase1
             ELSE AfterGeneration
    /\ state' = IF ChecksRequirements(arg, state, arg.requirements)
                THEN AfterCheck(state, arg.requirements)
                ELSE state
    /\ UNCHANGED <<failure_patterns, duplicates_found, op, arg, ret, calls, run,
                   entered, state_file>>

Phase1GenerateFeatures ==
    /\ MasterGoes(Phase1, Phase2)
    /\ UNCHANGED <<ret, run, state>>

Phase2GeneratePages ==
    /\ MasterGoes(Phase2, Phase3)
    /\ UNCHANGED <<ret, run, state>>

Phase3RemoveDuplication ==
    /\ MasterGoes(Phase3, AfterGeneration)
    /\ UNCHANGED <<ret, run, state>>

\* What `mvn clean verify` does.
MavenOutcomes == {"exit 0", "exit 1", "timeout", "error"}

\* phase_4_run_tests: the result is written to state['tests'] when Maven
\* exits; a timeout or another error returns False and writes nothing.
Phase4RunTests ==
    \E maven \in MavenOutcomes :
        /\ MasterGoes(Phase4, Phase5)
        /\ state' = IF maven \in {"exit 0", "exit 1"}
                    THEN [state EXCEPT !.tests = <<maven = "exit 0">>]
                    ELSE state
        /\ run' = [run EXCEPT !.passed = <<maven = "exit 0">>]
        /\ UNCHANGED ret

\* `if not self.rag or self.state['tests'].get('passed'):`
SkipsAnalysis(rag, st) == rag = None \/ st.tests = <<TRUE>>

Phase5AnalyzeFailures ==
    /\ MasterGoes(Phase5, Phase6)
    /\ run' = [run EXCEPT !.analysis =
                  <<IF SkipsAnalysis(arg.rag, state) THEN "skipped" ELSE "analysed">>]
    /\ UNCHANGED <<ret, state>>

Phase6GenerateReport ==
    /\ MasterGoes(Phase6, "save")
    /\ UNCHANGED <<ret, run, state>>

\* `self._save_state()` and the return of run.
SaveState ==
    /\ op = MasterOp
    /\ pc = "save"
    /\ pc' = "done"
    /\ state_file' = <<state>>
    /\ ret' = [returned |-> None]
    /\ UNCHANGED <<failure_patterns, duplicates_found, op, arg, calls, run, entered, state>>

\* The requirements file: absent, or one of two contents, named by hash.
Requirements == {"missing", "hash 1", "hash 2"}

MasterInputs ==
    [skip_gen : BOOLEAN, skip_tests : BOOLEAN, only_gen : BOOLEAN, only_tests : BOOLEAN,
     requirements : Requirements, rag : {"RAGOrchestrator", None}]

\* main: a new orchestrator over the state file as it is, and run.
Main(input) ==
    /\ op' = MasterOp
    /\ arg' = input
    /\ ret' = Pending
    /\ pc' = "run"
    /\ run' = [NoMasterRun EXCEPT !.found = state_file]
    /\ entered' = << >>
    /\ state' = LoadState(state_file)
    /\ UNCHANGED <<failure_patterns, duplicates_found, calls, state_file>>

\* The next invocation, once the last has ended.
MainAgain ==
    /\ op = MasterOp
    /\ pc = "done"
    /\ \E input \in MasterInputs : Main(input)

\* The first invocation, without a state file.
InitMaster ==
    /\ failure_patterns = DefaultFailurePatterns
    /\ duplicates_found = << >>
    /\ calls = << >>
    /\ op = MasterOp
    /\ arg \in MasterInputs
    /\ ret = Pending
    /\ pc = "run"
    /\ run = NoMasterRun
    /\ entered = << >>
    /\ state = NoState
    /\ state_file = << >>

NextMaster ==
    \/ DecideGeneration
    \/ Phase1GenerateFeatures
    \/ Phase2GeneratePages
    \/ Phase3RemoveDuplication
    \/ Phase4RunTests
    \/ Phase5AnalyzeFailures
    \/ Phase6GenerateReport
    \/ SaveState
    \/ MainAgain

SpecMaster == InitMaster /\ [][NextMaster]_vars

(***************************************************************************)
(* Claims about analyze_failure.                                           *)
(***************************************************************************)

Returned(o) == op = o /\ ret # Pending

HasMarker(text, error_type) == Contains(text, MarkerText(error_type))

\* The signatures of the current table whose marker is in the text.
Matching(text) ==
    {i \in 1..Len(failure_patterns) : HasMarker(text, failure_patterns[i].error_type)}

\* C4: when the log holds the markers of two or more signatures, error_type,
\* cause and fixes are those of the signature that comes first in the table,
\* wherever the markers stand in the text.
C4_FirstMatchWins ==
    Returned("analyze_failure") =>
        \A i \in Matching(arg) :
            (\A j \in Matching(arg) : i <= j) =>
                /\ ret.error_type = failure_patterns[i].error_type
                /\ ret.cause = failure_patterns[i].cause
                /\ ret.fixes = failure_patterns[i].fixes

\* Two markers, the later one of the table standing first in the text.
C4_Witness ==
    /\ Returned("analyze_failure")
    /\ failure_patterns = DefaultFailurePatterns
    /\ arg = <<"Timeout", "Exception", "NoSuchElement", "Exception">>
    /\ ret.error_type = "NoSuchElementException"
    /\ ret.cause = "Locator not found on page"

\* The fixed priority list, on the text alone.
SeverityByPriorityList(text) ==
    IF Contains(text, <<"NoSuchElement", "Exception">>) THEN "CRITICAL"
    ELSE IF Contains(text, <<"Timeout", "Exception">>) THEN "HIGH"
    ELSE IF Contains(text, <<"AssertionError">>) THEN "MEDIUM"
    ELSE "LOW"

\* C5: the severity is decided by the fixed priority list on the log text
\* alone, whatever the signature table contains.
C5_SeverityFromTextAlone ==
    Returned("analyze_failure") => ret.severity = SeverityByPriorityList(arg)

\* Only the timeout marker, and a table with no entry for it.
C5_Witness ==
    /\ Returned("analyze_failure")
    /\ failure_patterns = WithoutEntry(DefaultFailurePatterns, 3)
    /\ arg = <<"Timeout", "Exception">>
    /\ ret.error_type = None
    /\ ret.severity = "HIGH"

\* C7: a log with none of the signature markers is analysed normally:
\* nothing matched, severity LOW, no recommended actions.
C7_NoMatchIsAValue ==
    (Returned("analyze_failure") /\ Matching(arg) = {}) =>
        ret = [error_type |-> None, cause |-> None, fixes |-> << >>,
               severity |-> "LOW", recommended_actions |-> << >>]

\* "some random unrelated text".
C7_Witness ==
    /\ Returned("analyze_failure")
    /\ arg = <<"text", "text", "text", "text">>
    /\ ret.error_type = None
    /\ ret.severity = "LOW"

\* C8: a log with the NoSuchElementException marker, whatever else it holds,
\* is NoSuchElementException, CRITICAL, with fixes.
C8_NoSuchElementIsCritical ==
    (Returned("analyze_failure") /\ HasMarker(arg, "NoSuchElementException")) =>
        /\ ret.error_type = "NoSuchElementException"
        /\ ret.severity = "CRITICAL"
        /\ Len(ret.fixes) > 0

\* The marker after the marker of another signature.
C8_Witness ==
    /\ Returned("analyze_failure")
    /\ arg = <<"StaleElementReference", "Exception", "NoSuchElement", "Exception">>
    /\ ret.error_type = "NoSuchElementException"
    /\ ret.severity = "CRITICAL"

\* C9: recommended_actions is decided by the severity alone: one 4-step list
\* for CRITICAL, another for HIGH, none for MEDIUM and LOW.
C9_ActionsBySeverityOnly ==
    Returned("analyze_failure") =>
        /\ ret.severity = "CRITICAL" =>
              (ret.recommended_actions = CriticalActions /\ Len(ret.recommended_actions) = 4)
        /\ ret.severity = "HIGH" =>
              (ret.recommended_actions = HighActions /\ Len(ret.recommended_actions) = 4)
        /\ ret.severity \in {"MEDIUM", "LOW"} => ret.recommended_actions = << >>
        /\ CriticalActions # HighActions

\* HIGH with a matched signature that is not the timeout one, and MEDIUM
\* with a matched signature and fixes but no actions.
C9_Witness ==
    /\ Returned("analyze_failure")
    /\ ret.severity = "HIGH"
    /\ ret.error_type = "StaleElementReferenceException"
    /\ ret.recommended_actions = HighActions

(***************************************************************************)
(* Claims about the duplication checks.                                    *)
(***************************************************************************)

PageOp == "check_page_object_duplication"

StepOp == "check_step_duplication"

DupReturned == op \in {PageOp, StepOp} /\ ret # Pending

\* The lines of the collection the call's pattern extracts, as
\* <<file index, line index>>, and the normalized value of each.
Found ==
    {p \in UNION {{<<i, k>> : k \in 1..Len(arg[i].content)} : i \in 1..Len(arg)} :
        /\ arg[p[1]].status = "ok"
        /\ IF op = PageOp THEN LocatorMatches(arg[p[1]].content[p[2]])
                          ELSE StepMatches(arg[p[1]].content[p[2]])}

KeyAt(p) ==
    IF op = PageOp THEN NormalizeLocator(arg[p[1]].content[p[2]].value)
    ELSE StepKey(arg[p[1]].content[p[2]].text)

Occurrences(key) == Cardinality({p \in Found : KeyAt(p) = key})

RepeatedKeys == {key \in {KeyAt(p) : p \in Found} : Occurrences(key) >= 2}

\* The report's fields, under either name.
Groups == IF op = PageOp THEN ret.duplicate_locators ELSE ret.duplicate_steps

GroupKey(g) == IF op = PageOp THEN g.value ELSE g.pattern

GroupSize(g) == IF op = PageOp THEN Len(g.locations) ELSE Len(g.files)

Total == IF op = PageOp THEN ret.total_locators ELSE ret.total_steps

\* C1: a normalized value is reported as a duplicate group exactly when it
\* was extracted at least twice in the whole collection: every group has
\* more than one occurrence, every repeated value is reported exactly once,
\* and with no repeated value the list is empty and the percentage 0.0.
C1_DuplicateIffRepeated ==
    DupReturned =>
        /\ \A i \in 1..Len(Groups) :
              /\ Groups[i].count > 1
              /\ GroupSize(Groups[i]) > 1
              /\ GroupKey(Groups[i]) \in RepeatedKeys
        /\ \A key \in RepeatedKeys :
              Cardinality({i \in 1..Len(Groups) : GroupKey(Groups[i]) = key}) = 1
        /\ RepeatedKeys = {} =>
              (Groups = << >> /\ ret.duplication_percentage = FloatZero)

\* A value found twice, in two files, beside a value found once.
C1_Witness ==
    /\ DupReturned
    /\ op = PageOp
    /\ Cardinality(Found) = 3
    /\ Len(Groups) = 1
    /\ Groups[1].locations[1][1] # Groups[1].locations[2][1]

\* C2 as stated: the percentage is the float 100 * groups / total when the
\* total is positive, and 0.0 when it is 0.
C2_Original ==
    DupReturned =>
        ret.duplication_percentage =
            IF Cardinality(Found) > 0
            THEN FloatDiv(100 * Cardinality(RepeatedKeys), Cardinality(Found))
            ELSE FloatZero

\* C2, amended: the percentage is the float (groups / total) * 100, in that
\* order of evaluation, when the total of declarations found is positive,
\* and 0.0 when it is 0; the numerator counts groups, not occurrences.
C2_PercentageOfGroups ==
    DupReturned =>
        /\ Total = Cardinality(Found)
        /\ Len(Groups) = Cardinality(RepeatedKeys)
        /\ ret.duplication_percentage =
              IF Cardinality(Found) > 0
              THEN FloatMulInt(FloatDiv(Cardinality(RepeatedKeys), Cardinality(Found)), 100)
              ELSE FloatZero

\* One group of two among three declarations: 33.33333333333333, which is
\* not the float 100 / 3.
C2_Witness ==
    /\ DupReturned
    /\ Total = 3
    /\ Len(Groups) = 1
    /\ Groups[1].count = 2
    /\ ret.duplication_percentage = FloatMulInt(FloatDiv(1, 3), 100)
    /\ ret.duplication_percentage # FloatDiv(100, 3)

\* The text of a head, and the right-hand selector expression of a
\* declaration: everything between `= ` and `;`.
HeadChars(head) ==
    CASE head = "By." -> <<"B", "y", ".">>
      [] head = "BY." -> <<"B", "Y", ".">>
      [] head = " By." -> <<" ", "B", "y", ".">>

Rhs(decl) == HeadChars(decl.head) \o decl.value

\* Two texts that differ at most in letter case and in leading or
\* trailing blanks.
SameButCaseAndBlanks(s, t) == StrLower(StrStrip(s)) = StrLower(StrStrip(t))

\* Two readable files of one declaration each.
TwoDeclarations ==
    /\ op = PageOp
    /\ Len(arg) = 2
    /\ \A i \in 1..2 : arg[i].status = "ok" /\ Len(arg[i].content) = 1

\* The report of one group holding both declarations: 2 found, 50.0 %.
OneGroupOfBoth ==
    /\ Len(ret.duplicate_locators) = 1
    /\ ret.duplicate_locators[1].count = 2
    /\ ret.duplicate_locators[1].locations =
          << <<arg[1].path, arg[1].content[1].name>>,
             <<arg[2].path, arg[2].content[1].name>> >>
    /\ ret.total_locators = 2
    /\ ret.duplication_percentage = FloatOfInt(50)

\* C3 as stated: two declarations whose right-hand selector expressions
\* differ only in letter case or in leading/trailing blanks are one
\* duplicate group of 2, whatever their names and files.
C3_Original ==
    (DupReturned /\ TwoDeclarations
        /\ SameButCaseAndBlanks(Rhs(arg[1].content[1]), Rhs(arg[2].content[1])))
    => OneGroupOfBoth

\* C3, amended: two declarations that the declaration pattern extracts (the
\* `By.` after `= ` spelled exactly so) and whose text after `By.` differs
\* only in letter case or in leading/trailing blanks are one duplicate
\* group of 2, whatever their names and files: 2 found, 50.0 %.
C3_ExtractedValuesCollapse ==
    (DupReturned /\ TwoDeclarations
        /\ LocatorMatches(arg[1].content[1]) /\ LocatorMatches(arg[2].content[1])
        /\ SameButCaseAndBlanks(arg[1].content[1].value, arg[2].content[1].value))
    => OneGroupOfBoth

\* LOGIN_BUTTON in one file and SUBMIT_BTN in another, the values differing
\* in case and in a leading blank.
C3_Witness ==
    /\ DupReturned
    /\ TwoDeclarations
    /\ arg[1].content[1] = [name |-> "LOGIN_BUTTON", head |-> "By.", value |-> <<"a">>]
    /\ arg[2].content[1] = [name |-> "SUBMIT_BTN", head |-> "By.", value |-> <<" ", "A">>]
    /\ OneGroupOfBoth

Readable(file) == file.status = "ok"

\* C10: a file that is missing or cannot be decoded adds nothing and stops
\* nothing: the report is the report of the same collection without the
\* unreadable files.
C10_UnreadableFilesSkipped ==
    DupReturned =>
        /\ \A p \in Found : Readable(arg[p[1]])
        /\ Total = Cardinality(Found)
        /\ ret = IF op = PageOp THEN PageObjectReport(SelectSeq(arg, Readable))
                 ELSE StepReport(SelectSeq(arg, Readable))

\* An unreadable file first, and the declarations of the file after it
\* counted.
C10_Witness ==
    /\ DupReturned
    /\ Len(arg) = 2
    /\ arg[1].status = "undecodable"
    /\ arg[2].status = "ok"
    /\ Total = 2
    /\ Len(Groups) = 1

(***************************************************************************)
(* Claims about check_before_execution.                                    *)
(***************************************************************************)

\* The declarations and the annotations the two checks extract from the
\* tree, as <<file index, line index>>, and the values found more than once.
PagesFound ==
    {p \in UNION {{<<i, k>> : k \in 1..Len(arg.pages[i].content)} : i \in 1..Len(arg.pages)} :
        /\ arg.pages_dir = "exists"
        /\ IsPageFile(arg.pages[p[1]])
        /\ arg.pages[p[1]].status = "ok"
        /\ LocatorMatches(arg.pages[p[1]].content[p[2]])}

StepsFound ==
    {p \in UNION {{<<i, k>> : k \in 1..Len(arg.steps[i].content)} : i \in 1..Len(arg.steps)} :
        /\ arg.steps_dir = "exists"
        /\ IsStepFile(arg.steps[p[1]])
        /\ arg.steps[p[1]].status = "ok"
        /\ StepMatches(arg.steps[p[1]].content[p[2]])}

LocatorKey(p) == NormalizeLocator(arg.pages[p[1]].content[p[2]].value)

StepKeyAt(p) == StepKey(arg.steps[p[1]].content[p[2]].text)

RepeatedLocators ==
    {LocatorKey(p) : p \in {q \in PagesFound :
        \E r \in PagesFound : r # q /\ LocatorKey(r) = LocatorKey(q)}}

RepeatedSteps ==
    {StepKeyAt(p) : p \in {q \in StepsFound :
        \E r \in StepsFound : r # q /\ StepKeyAt(r) = StepKeyAt(q)}}

\* C6: ready_to_execute is false exactly when the locator duplication check
\* reported a duplicate group; duplicate step definitions add their entry
\* to issues and leave ready_to_execute alone.
C6_OnlyLocatorDuplicatesBlock ==
    Returned("check_before_execution") =>
        /\ ret.ready_to_execute = (RepeatedLocators = {})
        /\ ~ret.ready_to_execute =>
              /\ ret.duplication_check = PageObjectReport(FindPageFiles(arg))
              /\ ret.duplication_check.duplicate_locators # << >>
        /\ RepeatedSteps # {} =>
              /\ ret.step_integrity = StepReport(FindStepFiles(arg))
              /\ ret.issues[Len(ret.issues)] = StepIssue(Cardinality(RepeatedSteps))
        /\ Len(ret.issues) = (IF RepeatedLocators = {} THEN 0 ELSE 1)
                             + (IF RepeatedSteps = {} THEN 0 ELSE 1)

\* Duplicate steps and no duplicate locator: recorded, and ready.
C6_Witness ==
    /\ Returned("check_before_execution")
    /\ Len(FindPageFiles(arg)) = 2
    /\ RepeatedLocators = {}
    /\ RepeatedSteps # {}
    /\ ret.issues = <<StepIssue(1)>>
    /\ ret.ready_to_execute

(***************************************************************************)
(* Claims about repeated calls of the duplication checks.                  *)
(***************************************************************************)

\* Scan order: files in the order given, lines in the order written.
ScannedBefore(p, q) == p[1] < q[1] \/ (p[1] = q[1] /\ p[2] < q[2])

FoundWithKey(key) == {p \in Found : KeyAt(p) = key}

\* The place of p among the lines found with its key.
RankInGroup(p) ==
    1 + Cardinality({q \in FoundWithKey(KeyAt(p)) : ScannedBefore(q, p)})

FirstSeen(key) ==
    CHOOSE p \in FoundWithKey(key) : \A q \in FoundWithKey(key) : ~ScannedBefore(q, p)

\* What a group lists for the line at p.
ListedFor(p) ==
    IF op = PageOp THEN <<arg[p[1]].path, arg[p[1]].content[p[2]].name>>
    ELSE arg[p[1]].path

Listed(g) == IF op = PageOp THEN g.locations ELSE g.files

\* C11: a call returns what every earlier call of the same check on the
\* same files returned, whatever was checked in between; the groups are
\* listed in the order their values were first seen by the scan, and the
\* occurrences of a group in scan order.
C11_SameReportInScanOrder ==
    DupReturned =>
        /\ duplicates_found = << >>
        /\ \A i \in 1..Len(calls) :
              (calls[i].op = op /\ calls[i].arg = arg) => calls[i].ret = ret
        /\ \A i, j \in 1..Len(Groups) :
              i < j => ScannedBefore(FirstSeen(GroupKey(Groups[i])),
                                     FirstSeen(GroupKey(Groups[j])))
        /\ \A i \in 1..Len(Groups) :
              /\ Len(Listed(Groups[i])) = Cardinality(FoundWithKey(GroupKey(Groups[i])))
              /\ \A p \in FoundWithKey(GroupKey(Groups[i])) :
                    Listed(Groups[i])[RankInGroup(p)] = ListedFor(p)

\* The third call repeats the first after a call on other files; "b" is
\* seen first and "a" repeats first.
C11_Witness ==
    /\ DupReturned
    /\ op = PageOp
    /\ Len(calls) = 2
    /\ calls[1].op = op /\ calls[1].arg = arg
    /\ calls[2].arg # arg
    /\ Len(arg) = 2
    /\ \A i \in 1..2 : Len(arg[i].content) = 2
    /\ [k \in 1..2 |-> arg[1].content[k].value] = << <<"B">>, <<"a">> >>
    /\ [k \in 1..2 |-> arg[2].content[k].value] = << <<"a">>, <<"B">> >>
    /\ [i \in 1..Len(Groups) |-> Groups[i].value] = << <<"b">>, <<"a">> >>

(***************************************************************************)
(* Claims about repeated calls of analyze_failure.                         *)
(***************************************************************************)

\* C12: on one analyzer, a call returns the analysis that every earlier
\* call with the same log text returned, whatever was analysed in between,
\* and the calls leave the table as it was.
C12_SameLogSameAnalysis ==
    Returned("analyze_failure") =>
        /\ failure_patterns = DefaultFailurePatterns
        /\ \A i \in 1..Len(calls) : calls[i].arg = arg => calls[i].ret = ret

\* The third call repeats the first after another signature was matched.
C12_Witness ==
    /\ Returned("analyze_failure")
    /\ Len(calls) = 2
    /\ calls[1].arg = arg
    /\ ret.error_type = "StaleElementReferenceException"
    /\ calls[2].ret.error_type = "NoSuchElementException"

\* C13 as stated: whatever the caller does to an analysis it was handed,
\* the table stays as built and a later call returns what the same log text
\* returned before.
C13_Original ==
    /\ failure_patterns = DefaultFailurePatterns
    /\ Returned("analyze_failure") =>
          \A i \in 1..Len(calls) : calls[i].arg = arg => calls[i].ret = ret

(***************************************************************************)
(* Claims about the grouping key of step definitions.                      *)
(***************************************************************************)

\* Two readable step files of one annotation each, both extracted.
TwoStepDefinitions ==
    /\ op = StepOp
    /\ Len(arg) = 2
    /\ \A i \in 1..2 :
          /\ arg[i].status = "ok"
          /\ Len(arg[i].content) = 1
          /\ StepMatches(arg[i].content[1])

\* C14 as stated: two step patterns that differ only in letter case or only
\* in leading/trailing blanks inside the quotes are one duplicate group.
C14_Original ==
    (DupReturned /\ TwoStepDefinitions
        /\ SameButCaseAndBlanks(arg[1].content[1].text, arg[2].content[1].text))
    => /\ Len(ret.duplicate_steps) = 1
       /\ ret.duplicate_steps[1].count = 2
       /\ ret.duplicate_steps[1].files = <<arg[1].path, arg[2].path>>

(***************************************************************************)
(* Claims about generate_deduplication_suggestions.                        *)
(***************************************************************************)

\* The argument is a report as one of the checks returns it.
IsCheckReport(report) ==
    /\ "duplication_percentage" \in DOMAIN report
    /\ \/ "total_locators" \in DOMAIN report
       \/ "total_steps" \in DOMAIN report

GroupsOf(report) ==
    IF "total_locators" \in DOMAIN report THEN report.duplicate_locators
    ELSE report.duplicate_steps

TotalOf(report) ==
    IF "total_locators" \in DOMAIN report THEN report.total_locators
    ELSE report.total_steps

Warned(suggestions) ==
    \E i \in 1..Len(suggestions) : suggestions[i] = HighDuplicationWarning[1]

\* C15: for the report of a check, the warning is emitted exactly when the
\* groups are more than 20 % of the declarations, that is when 5 * groups
\* exceeds the total; at exactly 20 % there is no warning, and without a
\* duplicate group there is no suggestion at all.
C15_WarningAbove20Percent ==
    (Returned("generate_deduplication_suggestions") /\ IsCheckReport(arg)) =>
        /\ Warned(ret) <=> 5 * Len(GroupsOf(arg)) > TotalOf(arg)
        /\ GroupsOf(arg) = << >> => ret = << >>
        /\ GroupsOf(arg) # << >> => Len(ret) >= 7

\* One duplicate group among 5 declarations: suggestions, and no warning.
C15_Witness ==
    /\ Returned("generate_deduplication_suggestions")
    /\ IsCheckReport(arg)
    /\ TotalOf(arg) = 5
    /\ Len(GroupsOf(arg)) = 1
    /\ arg.duplication_percentage = FloatOfInt(20)
    /\ ret = LocatorSuggestions(1)

(***************************************************************************)
(* Claims about suggest_fix_code.                                          *)
(***************************************************************************)

SupportedFixTypes ==
    {"NoSuchElementException", "StaleElementReferenceException", "TimeoutException",
     "ElementNotInteractableException"}

\* C16: suggest_fix_code returns, and leaves the analyzer as it was; for the
\* four supported error types the template holds the element name, and for
\* every other error type, AssertionError and InvalidElementStateException
\* included, the one generic text.
C16_TemplateOrGenericFix ==
    Returned("suggest_fix_code") =>
        /\ failure_patterns = DefaultFailurePatterns
        /\ duplicates_found = << >>
        /\ arg.error_type \in SupportedFixTypes =>
              /\ ret # GenericFix
              /\ \E i \in 1..Len(ret) : ret[i] = arg.element_name
        /\ arg.error_type \notin SupportedFixTypes => ret = GenericFix

\* A signature analyze_failure can return gets the generic text.
C16_Witness ==
    /\ Returned("suggest_fix_code")
    /\ arg = [error_type |-> "AssertionError", element_name |-> "loginButton"]
    /\ ret = GenericFix

(***************************************************************************)
(* Claims about what check_before_execution returns.                       *)
(***************************************************************************)

PageFilesFound ==
    arg.pages_dir = "exists" /\ \E i \in 1..Len(arg.pages) : IsPageFile(arg.pages[i])

StepFilesFound ==
    arg.steps_dir = "exists" /\ \E i \in 1..Len(arg.steps) : IsStepFile(arg.steps[i])

\* C17 as stated: the report always carries the report of the locator check
\* and the report of the step check; when nothing is found they are empty
\* reports, ready_to_execute is true and there is no issue.
C17_Original ==
    Returned("check_before_execution") =>
        /\ "total_locators" \in DOMAIN ret.duplication_check
        /\ "total_steps" \in DOMAIN ret.step_integrity
        /\ (~PageFilesFound /\ ~StepFilesFound) =>
              /\ ret.duplication_check.total_locators = 0
              /\ ret.duplication_check.duplication_percentage = FloatZero
              /\ ret.step_integrity.total_steps = 0
              /\ ret.step_integrity.duplication_percentage = FloatZero
              /\ ret.ready_to_execute
              /\ ret.issues = << >>

\* C17, amended: check_before_execution returns, and carries the report of
\* a check exactly when a file of its kind was found; otherwise the field
\* stays unset.  When nothing is found, both fields are unset,
\* ready_to_execute is true and there is no issue.
C17_ReportsOnlyOfFilesFound ==
    Returned("check_before_execution") =>
        /\ "total_locators" \in DOMAIN ret.duplication_check <=> PageFilesFound
        /\ ~PageFilesFound => ret.duplication_check = NoReport
        /\ "total_steps" \in DOMAIN ret.step_integrity <=> StepFilesFound
        /\ ~StepFilesFound => ret.step_integrity = NoReport
        /\ ret.locator_integrity = NoReport
        /\ (~PageFilesFound /\ ~StepFilesFound) =>
              (ret.ready_to_execute /\ ret.issues = << >>)

\* Neither directory is there.
C17_Witness ==
    /\ Returned("check_before_execution")
    /\ arg.pages_dir = "absent"
    /\ arg.steps_dir = "absent"
    /\ ret.duplication_check = NoReport
    /\ ret.step_integrity = NoReport
    /\ ret.ready_to_execute
    /\ ret.issues = << >>

(***************************************************************************)
(* Claims about a run of run_advanced_e2e.                                 *)
(***************************************************************************)

Steps == <<Step0, Step1, Step2, Step3, Step4, Step5>>

Entered(step) == \E i \in 1..Len(entered) : entered[i] = step

RunReturned == op = "run_advanced_e2e" /\ pc = "returned"

\* C18: whether a run reaches the test execution is settled by the RAG
\* service and the generation alone: a run whose pre-check was not ready
\* reaches it under the conditions under which a ready one does.
C18_PreCheckDoesNotGate ==
    /\ (op = "run_advanced_e2e" /\ Entered(Step3)) =>
          (arg.rag \in {"running", "started"} /\ arg.generation = "success")
    /\ RunReturned =>
          (Entered(Step3) <=>
              (arg.rag \in {"running", "started"} /\ arg.generation = "success"))

\* A run whose pre-check was not ready has run the tests and returned True.
C18_Witness ==
    /\ RunReturned
    /\ ~run.pre_check[1].ready_to_execute
    /\ Entered(Step3)
    /\ ret = [returned |-> TRUE]

\* C19: the steps of a run are entered in the one order pre-check, (RAG
\* start, generation,) test execution, analysis, report, each at most once
\* and none again; the tests start after the pre-check has returned, the
\* analysis starts after the tests have, and the run returns True only
\* after all of them.
C19_OneWayPhases ==
    op = "run_advanced_e2e" =>
        /\ Len(entered) <= Len(Steps)
        /\ entered = SubSeq(Steps, 1, Len(entered))
        /\ pc \in {Step3} \/ Entered(Step3) => run.pre_check # << >>
        /\ pc \in {Step4} \/ Entered(Step4) =>
              (Entered(Step3) /\ run.test_output # << >> /\ run.test_success # << >>)
        /\ run.analyses # << >> <=> Entered(Step4)
        /\ pc \in {"returned", "exited"} <=> ret # Pending
        /\ ret = [returned |-> TRUE] <=> entered = Steps

\* A whole run: not ready, tests without success, a failure line analysed.
C19_Witness ==
    /\ RunReturned
    /\ entered = Steps
    /\ ~run.pre_check[1].ready_to_execute
    /\ run.test_success = <<FALSE>>
    /\ Len(run.analyses[1]) = 2
    /\ run.analyses[1][1].severity = "CRITICAL"

(***************************************************************************)
(* Claims about severity against error_type.                               *)
(***************************************************************************)

\* The analysis names a signature that alone gives LOW, beside `severity`.
LowSignatureWith(severity) ==
    /\ Returned("analyze_failure")
    /\ ret.severity = severity
    /\ ret.error_type \in {"StaleElementReferenceException",
                           "ElementNotInteractableException",
                           "InvalidElementStateException"}

\* C20 as stated: among the log texts there is one that analyze_failure
\* gives severity CRITICAL and an error_type that alone gives only LOW.
C20_Original == <>LowSignatureWith("CRITICAL")

\* C20, amended: with the table as built, severity CRITICAL always comes
\* with error_type NoSuchElementException; severity and error_type
\* disagree below that, as HIGH or MEDIUM beside a LOW-only signature.
C20_CriticalIsNoSuchElement ==
    Returned("analyze_failure") =>
        /\ ret.severity = "CRITICAL" <=> ret.error_type = "NoSuchElementException"
        /\ ~LowSignatureWith("CRITICAL")

\* StaleElementReferenceException matched in a log that also holds
\* AssertionError: MEDIUM.
C20_Witness ==
    /\ LowSignatureWith("MEDIUM")
    /\ ret.error_type = "StaleElementReferenceException"
    /\ Contains(arg, <<"AssertionError">>)

(***************************************************************************)
(* Claims about the severity each error_type comes with.                   *)
(***************************************************************************)

\* C23: for every log text the analysis has severity CRITICAL exactly when
\* error_type is NoSuchElementException; error_type TimeoutException comes
\* with HIGH, AssertionError with MEDIUM and no error_type with LOW.
C23_SeverityOfTheMatch ==
    Returned("analyze_failure") =>
        /\ ret.severity = "CRITICAL" <=> ret.error_type = "NoSuchElementException"
        /\ ret.error_type = "TimeoutException" => ret.severity = "HIGH"
        /\ ret.error_type = "AssertionError" => ret.severity = "MEDIUM"
        /\ ret.error_type = None => ret.severity = "LOW"

\* AssertionError matched in a log that holds a later signature as well.
C23_Witness ==
    /\ Returned("analyze_failure")
    /\ ret.error_type = "AssertionError"
    /\ ret.severity = "MEDIUM"
    /\ Contains(arg, MarkerText("InvalidElementStateException"))

(***************************************************************************)
(* Claims about the sizes in a duplication report.                         *)
(***************************************************************************)

\* C24: in every report of the two checks, twice the number of duplicate
\* groups is at most the total of declarations found, so the percentage
\* lies between 0 and 50 inclusive; each declaration found is in at most
\* one group, and each group's count is the number of its listed locations.
C24_GroupsAtMostHalf ==
    DupReturned =>
        /\ 2 * Len(Groups) <= Total
        /\ ~FloatGreater(ret.duplication_percentage, FloatOfInt(50))
        /\ ret.duplication_percentage = FloatZero
              \/ FloatGreater(ret.duplication_percentage, FloatZero)
        /\ \A p \in Found :
              Cardinality({i \in 1..Len(Groups) : GroupKey(Groups[i]) = KeyAt(p)}) <= 1
        /\ SumCounts(Groups) <= Total
        /\ \A i \in 1..Len(Groups) :
              /\ Groups[i].count = GroupSize(Groups[i])
              /\ Groups[i].count = Occurrences(GroupKey(Groups[i]))

\* Two groups of two among four declarations, one of each group in either
\* file: 50.0.
C24_Witness ==
    /\ DupReturned
    /\ op = PageOp
    /\ Total = 4
    /\ Len(Groups) = 2
    /\ \A i \in 1..2 : Groups[i].count = 2
    /\ ret.duplication_percentage = FloatOfInt(50)

(***************************************************************************)
(* Claims about the affected files of a duplication report.                *)
(***************************************************************************)

Affected == IF op = PageOp THEN ret.pages_affected ELSE ret.files_affected

\* The files named in the duplicate groups.
FilesInGroups ==
    UNION {IF op = PageOp
           THEN {Groups[i].locations[k][1] : k \in 1..Len(Groups[i].locations)}
           ELSE {Groups[i].files[k] : k \in 1..Len(Groups[i].files)} :
             i \in 1..Len(Groups)}

\* C30: the affected files of a report are the readable files from which
\* at least one declaration was extracted: every file of a duplicate group
\* is among them, and no unreadable file and no file without an extracted
\* declaration is.
C30_AffectedAreFilesWithDeclarations ==
    DupReturned =>
        /\ Affected = {arg[p[1]].path : p \in Found}
        /\ FilesInGroups \subseteq Affected
        /\ \A i \in 1..Len(arg) :
              (arg[i].status # "ok" \/ ~\E p \in Found : p[1] = i)
                  => arg[i].path \notin Affected

\* A readable file whose only line the pattern does not extract, and a
\* file with one declaration that repeats nothing: the second alone is
\* affected.
C30_Witness ==
    /\ DupReturned
    /\ op = PageOp
    /\ Len(arg) = 2
    /\ arg[1].status = "ok"
    /\ Len(arg[1].content) = 1
    /\ ~LocatorMatches(arg[1].content[1])
    /\ Affected = {arg[2].path}
    /\ Groups = << >>

(***************************************************************************)
(* Claims about the keyword of a step definition.                          *)
(***************************************************************************)

\* The same files with every accepted keyword written as Given.
AsGiven(files) ==
    [i \in 1..Len(files) |->
        [files[i] EXCEPT !.content =
            [k \in 1..Len(files[i].content) |->
                IF StepMatches(files[i].content[k])
                THEN [files[i].content[k] EXCEPT !.kw = "Given"]
                ELSE files[i].content[k]]]]

\* C29: check_step_duplication groups by the lowercased pattern text only:
\* annotations with the same lowercased text are occurrences of one group
\* whatever their keywords, in one file or across files, and the report is
\* that of the same files with every keyword written as Given.
C29_KeywordIgnored ==
    (DupReturned /\ op = StepOp) =>
        /\ ret = StepReport(AsGiven(arg))
        /\ \A p \in Found, q \in Found :
              (p # q /\ StrLower(arg[p[1]].content[p[2]].text)
                          = StrLower(arg[q[1]].content[q[2]].text))
              => \E i \in 1..Len(Groups) :
                    /\ Groups[i].pattern = StrLower(arg[p[1]].content[p[2]].text)
                    /\ Groups[i].count =
                          Cardinality({r \in Found :
                              StrLower(arg[r[1]].content[r[2]].text) = Groups[i].pattern})

\* A Given in one file, a When and a Then in another, the same text in two
\* letter cases: one group of three.
C29_Witness ==
    /\ DupReturned
    /\ op = StepOp
    /\ Len(arg) = 2
    /\ Len(arg[1].content) = 1
    /\ Len(arg[2].content) = 2
    /\ arg[1].content[1].kw = "Given"
    /\ arg[2].content[1] = [kw |-> "When", text |-> <<"A">>]
    /\ arg[2].content[2] = [kw |-> "Then", text |-> <<"a">>]
    /\ Len(Groups) = 1
    /\ Groups[1].count = 3
    /\ Groups[1].files = <<arg[1].path, arg[2].path, arg[2].path>>

(***************************************************************************)
(* Claims about main of the advanced orchestrator and the end of a run.    *)
(***************************************************************************)

RunEnded == op = "run_advanced_e2e" /\ pc \in {"returned", "exited"}

TimesEntered(step) == Cardinality({i \in 1..Len(entered) : entered[i] = step})

ServiceAndArtifactsReady ==
    arg.rag \in {"running", "started"} /\ arg.generation = "success"

\* C21 as stated: in a run started with --skip-checks the pre-execution
\* checks are not run.
C21_Original ==
    (op = "run_advanced_e2e" /\ arg.skip_checks) =>
        (~Entered(Step0) /\ run.pre_check = << >>)

\* C27 as stated: the test execution is reached exactly when the RAG start
\* and the generation succeeded, and whenever it is reached the analysis
\* and the report each run once afterwards and the run returns True.
C27_Original ==
    RunEnded =>
        /\ Entered(Step3) <=> ServiceAndArtifactsReady
        /\ Entered(Step3) =>
              /\ TimesEntered(Step4) = 1
              /\ TimesEntered(Step5) = 1
              /\ ret = [returned |-> TRUE]

\* C27, amended: the test execution is reached exactly when the RAG start
\* and the generation succeeded; whenever run_tests returns, with success
\* or without, the analysis and the report each run once afterwards and
\* the run returns True; when Maven cannot be started run_tests raises and
\* the run ends with that error, without analysis and without report.
C27_AnalysisAndReportAfterTests ==
    RunEnded =>
        /\ Entered(Step3) <=> ServiceAndArtifactsReady
        /\ (Entered(Step3) /\ run.test_output # << >>) =>
              /\ TimesEntered(Step4) = 1
              /\ TimesEntered(Step5) = 1
              /\ entered = Steps
              /\ ret = [returned |-> TRUE]
        /\ (Entered(Step3) /\ run.test_output = << >>) =>
              /\ arg.tests.mvn = "missing"
              /\ ~Entered(Step4)
              /\ ~Entered(Step5)
              /\ ret = [raised |-> "FileNotFoundError"]

\* Tests that ran without success, then the analysis, the report and True.
C27_Witness ==
    /\ RunEnded
    /\ run.test_success = <<FALSE>>
    /\ run.analyses # << >>
    /\ run.report_path # << >>
    /\ ret = [returned |-> TRUE]

\* C28: when main exits, on any path, a RAG service process this
\* orchestrator started has been terminated by cleanup; a service that
\* was already running is never held nor terminated by it; and
\* start_rag_service returns after at most 30 health polls of a process
\* it started.
C28_StartedServiceIsStopped ==
    op = "run_advanced_e2e" =>
        /\ run.rag_process # << >> <=>
              (Entered(Step1) /\ arg.rag \in {"started", "never ready"})
        /\ pc = "exited" => run.rag_process \in {<< >>, <<"terminated">>}
        /\ run.rag_process = <<"terminated">> => pc = "exited"
        /\ arg.rag = "running" => (run.rag_process = << >> /\ run.polls = 0)
        /\ run.polls <= HealthPolls
        /\ (Entered(Step1) /\ arg.rag = "never ready") =>
              (run.polls = HealthPolls /\ ret = [returned |-> FALSE])

\* A service that answered on the last poll, Maven missing: the error
\* leaves the run and the process is terminated on the way out.
C28_Witness ==
    /\ op = "run_advanced_e2e"
    /\ pc = "exited"
    /\ run.polls = HealthPolls
    /\ ret = [raised |-> "FileNotFoundError"]
    /\ run.rag_process = <<"terminated">>

(***************************************************************************)
(* Claims about the runs of the master orchestrator.                       *)
(***************************************************************************)

MasterEntered(phase) == op = MasterOp /\ \E i \in 1..Len(entered) : entered[i] = phase

MasterDone == op = MasterOp /\ pc = "done"

\* C22 as stated: a run with only_tests and without only_gen executes none
\* of the generation phases, whether or not the requirements changed.
C22_Original ==
    (op = MasterOp /\ arg.only_tests /\ ~arg.only_gen) =>
        /\ pc \notin {Phase1, Phase2, Phase3}
        /\ ~MasterEntered(Phase1)
        /\ ~MasterEntered(Phase2)
        /\ ~MasterEntered(Phase3)

\* C25 as stated: a run that leaves another last_hash in the state file
\* than it found has executed the generation phases.
C25_Original ==
    MasterDone =>
        (state_file[1].last_hash # LoadState(run.found).last_hash
            => (MasterEntered(Phase1) /\ MasterEntered(Phase2) /\ MasterEntered(Phase3)))

\* C26 as stated: with the RAG service at hand, phase 5 skips the analysis
\* only when phase 4 of the same run passed.
C26_Original ==
    (op = MasterOp /\ arg.rag # None /\ run.analysis = <<"skipped">>)
        => run.passed = <<TRUE>>

====
